---- MODULE Spec2Model ----
(***************************************************************************)
(* Model of the grocery voice-assistant core: the product matcher          *)
(* (lib/fuzzySearch.ts), the cart/order operations of the application      *)
(* context (context/AppContext.tsx) and the client tools of the voice      *)
(* assistant (components/VoiceAssistant.tsx).                              *)
(*                                                                         *)
(* Strings are sequences of one-character strings.  Amounts are integers.  *)
(* The storage service (supabase) is modelled by its tables and by the     *)
(* outcome of each call: "ok", "error" (an error object is returned) or    *)
(* "throw" (the awaited promise rejects).  A call that does not end "ok"   *)
(* changes no table.                                                       *)
(***************************************************************************)
EXTENDS Integers, Sequences, FiniteSets, TLC

----------------------------------------------------------------------------
(* Bounds *)

\* longest product name / query drawn in the matcher specification
MaxLen == 2
\* largest quantity argument of a tool call or UI action
MaxQty == 2
\* number of orders that can be created in one behaviour
MaxOrders == 1
\* largest quantity of a cart row
MaxRowQty == 2

\* handlers of the user interface that run while one placeOrder call runs
MaxInterleave == 1

\* products of the catalog of many candidates
MaxCandidates == 5

----------------------------------------------------------------------------
(* Strings *)

NoProduct == "none"

LowerOf ==
  [c \in {"A", "D", "F", "M", "P", "S"} |->
     CASE c = "A" -> "a" [] c = "D" -> "d" [] c = "F" -> "f"
       [] c = "M" -> "m" [] c = "P" -> "p" [] c = "S" -> "s"]

\* String.prototype.toLowerCase
toLowerCase(s) ==
  [i \in 1..Len(s) |-> IF s[i] \in DOMAIN LowerOf THEN LowerOf[s[i]] ELSE s[i]]

RECURSIVE trimStart(_)
trimStart(s) ==
  IF s # <<>> /\ Head(s) = " " THEN trimStart(Tail(s)) ELSE s

RECURSIVE trimEnd(_)
trimEnd(s) ==
  IF s # <<>> /\ s[Len(s)] = " " THEN trimEnd(SubSeq(s, 1, Len(s) - 1)) ELSE s

\* String.prototype.trim, were it to leave the string as it is
trimAbsent(s) == s

\* String.prototype.trim
trim(s) == trimEnd(trimStart(s))

startsWith(s, t) == Len(t) <= Len(s) /\ SubSeq(s, 1, Len(t)) = t

endsWith(s, t) == Len(t) <= Len(s) /\ SubSeq(s, Len(s) - Len(t) + 1, Len(s)) = t

\* String.prototype.includes
includes(s, t) ==
  \E i \in 0..(Len(s) - Len(t)) : SubSeq(s, i + 1, i + Len(t)) = t

\* s.slice(0, n) for n >= 0
sliceTo(s, n) == SubSeq(s, 1, IF n < Len(s) THEN n ELSE Len(s))

\* s.slice(0, -1)
dropLast(s) == IF s = <<>> THEN s ELSE SubSeq(s, 1, Len(s) - 1)

\* s.split(' ')
RECURSIVE split(_)
split(s) ==
  IF \A i \in 1..Len(s) : s[i] # " " THEN <<s>>
  ELSE LET k == CHOOSE i \in 1..Len(s) :
                   s[i] = " " /\ \A j \in 1..(i - 1) : s[j] # " "
       IN  <<SubSeq(s, 1, k - 1)>> \o split(SubSeq(s, k + 1, Len(s)))

\* Array.prototype.find over a sequence: index of the first element
\* satisfying Test, 0 when there is none
FindIndex(seq, Test(_)) ==
  IF \E i \in 1..Len(seq) : Test(seq[i])
  THEN CHOOSE i \in 1..Len(seq) :
         Test(seq[i]) /\ \A j \in 1..(i - 1) : ~Test(seq[j])
  ELSE 0

\* arr.slice(a), were the end of the slice left out
sliceToEnd(seq, a, b) == SubSeq(seq, a + 1, Len(seq))

\* arr.slice(a, b) with 0-based, end-exclusive bounds
slice(seq, a, b) ==
  SubSeq(seq, a + 1, IF b < Len(seq) THEN b ELSE Len(seq))

----------------------------------------------------------------------------
(* The product matcher: lib/fuzzySearch.ts, class ProductFuzzySearch *)

\* the alternation of the first regular expression of strategy 3
CleanPrefixes ==
  { <<"f", "r", "e", "s", "h">>,
    <<"o", "r", "g", "a", "n", "i", "c">>,
    <<"p", "r", "e", "m", "i", "u", "m">>,
    <<"q", "u", "a", "l", "i", "t", "y">>,
    <<"b", "e", "s", "t">>,
    <<"t", "o", "p">>,
    <<"l", "o", "c", "a", "l">>,
    <<"f", "a", "r", "m">> }

\* the alternation of the second regular expression of strategy 3
CleanSuffixes ==
  { <<"f", "r", "u", "i", "t">>,
    <<"v", "e", "g", "e", "t", "a", "b", "l", "e">>,
    <<"i", "t", "e", "m">>,
    <<"p", "r", "o", "d", "u", "c", "t">>,
    <<"f", "o", "o", "d">> }

\* s.replace(/^(fresh|...|farm)\s+/i, '') on a lower-case string
stripPrefix(s) ==
  IF \E w \in CleanPrefixes :
       startsWith(s, w) /\ Len(s) > Len(w) /\ s[Len(w) + 1] = " "
  THEN LET w == CHOOSE w \in CleanPrefixes :
                  startsWith(s, w) /\ Len(s) > Len(w) /\ s[Len(w) + 1] = " "
       IN  trimStart(SubSeq(s, Len(w) + 1, Len(s)))
  ELSE s

\* s.replace(/\s+(fruit|...|food)$/i, '') on a lower-case string
stripSuffix(s) ==
  IF \E w \in CleanSuffixes :
       endsWith(s, w) /\ Len(s) > Len(w) /\ s[Len(s) - Len(w)] = " "
  THEN LET w == CHOOSE w \in CleanSuffixes :
                  endsWith(s, w) /\ Len(s) > Len(w) /\ s[Len(s) - Len(w)] = " "
       IN  trimEnd(SubSeq(s, 1, Len(s) - Len(w)))
  ELSE s

\* The result of this.fuse.search(query) is an input of the model: Fuse.js
\* is a library.  A result list names catalog products, each at most once,
\* with a score in thousandths, best (lowest) score first.
IsFuseResult(fz, products) ==
  /\ \A i \in 1..Len(fz) : \E k \in 1..Len(products) : products[k].id = fz[i].product
  /\ \A i, j \in 1..Len(fz) : i # j => fz[i].product # fz[j].product
  /\ \A i, j \in 1..Len(fz) : i < j => fz[i].score <= fz[j].score

\* ProductFuzzySearch.search(query, limit); fz is fuse's answer for query
search(query, limit, fz) ==
  IF query = <<>> \/ Len(trim(query)) < 2 THEN <<>>
  ELSE slice(fz, 0, limit)

\* ids of a list of products
Ids(seq) == [i \in 1..Len(seq) |-> seq[i].id]

\* the suggestions, were they not deduplicated
DedupeAbsent(ids) == ids

\* allSuggestions.filter((product, index, array) =>
\*    array.findIndex(p => p.id === product.id) === index)
Dedupe(ids) ==
  LET keep == {i \in 1..Len(ids) : \A j \in 1..(i - 1) : ids[j] # ids[i]}
      RECURSIVE build(_)
      build(i) == IF i > Len(ids) THEN <<>>
                  ELSE (IF i \in keep THEN <<ids[i]>> ELSE <<>>) \o build(i + 1)
  IN  build(1)

\* ProductFuzzySearch.getSuggestions(searchName, 3); fzSug is fuse's answer
\* for the first word of searchName
getSuggestions(searchName, products, fzSug) ==
  LET firstWord == split(searchName)[1]
      suggestions == search(firstWord, 6, fzSug)
      letterSuggestions ==
        SelectSeq(products, LAMBDA p :
          LET productName == toLowerCase(p.name)
              words == split(productName)
          IN  \/ startsWith(productName, sliceTo(firstWord, 2))
              \/ \E i \in 1..Len(words) :
                   startsWith(words[i], sliceTo(firstWord, 2)))
      allSuggestions ==
        [i \in 1..Len(suggestions) |-> suggestions[i].product]
          \o Ids(letterSuggestions)
  IN  IF Len(firstWord) < 2 THEN <<>>
      ELSE slice(Dedupe(allSuggestions), 0, 3)

\* strategy 1, were it to find nothing
exactMatchSkipped(normalizedSearch, products) == 0

\* strategy 1, were the names of the products compared as they are stored
exactMatchAsStored(normalizedSearch, products) ==
  FindIndex(products, LAMBDA p : p.name = normalizedSearch)

\* strategy 1 of findProduct: this.products.find(p =>
\*   p.name.toLowerCase() === normalizedSearch)
exactMatch(normalizedSearch, products) ==
  FindIndex(products, LAMBDA p : toLowerCase(p.name) = normalizedSearch)

\* strategy 3, were the cleaned query looked up whatever its length
cleanAttemptedAnyLength(cleanedSearch, normalizedSearch) ==
  cleanedSearch # normalizedSearch

\* the condition under which strategy 3 of findProduct looks up the cleaned
\* query: cleanedSearch !== normalizedSearch && cleanedSearch.length >= 2
cleanAttempted(cleanedSearch, normalizedSearch) ==
  cleanedSearch # normalizedSearch /\ Len(cleanedSearch) >= 2

\* ProductFuzzySearch.findProduct(searchName) over this.products = products;
\* fz is fuse's answer for the normalized query, fzSug for its first word
findProduct(searchName, products, fz, fzSug) ==
  LET normalizedSearch == trim(toLowerCase(searchName))
      exact == exactMatch(normalizedSearch, products)
      singularSearch == IF endsWith(normalizedSearch, <<"s">>)
                        THEN dropLast(normalizedSearch) ELSE normalizedSearch
      pluralSearch == IF endsWith(normalizedSearch, <<"s">>)
                      THEN normalizedSearch ELSE normalizedSearch \o <<"s">>
      pluralMatch ==
        FindIndex(products, LAMBDA p :
          \/ toLowerCase(p.name) = singularSearch
          \/ toLowerCase(p.name) = pluralSearch)
      cleanedSearch == trim(stripSuffix(stripPrefix(normalizedSearch)))
      cleanMatch ==
        FindIndex(products, LAMBDA p :
          \/ toLowerCase(p.name) = cleanedSearch
          \/ toLowerCase(p.name) =
               (IF endsWith(cleanedSearch, <<"s">>)
                THEN dropLast(cleanedSearch) ELSE cleanedSearch \o <<"s">>))
      fuzzyResults == search(normalizedSearch, 5, fz)
      bestMatch == fuzzyResults[1]
      fuzzyAlternatives ==
        SelectSeq(slice(fuzzyResults, 1, 4), LAMBDA r : r.score <= 500)
      searchWords == split(normalizedSearch)
      partialMatches ==
        SelectSeq(products, LAMBDA p :
          LET productName == toLowerCase(p.name)
              productWords == split(productName)
          IN  \E w \in 1..Len(searchWords) :
                LET word == searchWords[w] IN
                /\ Len(word) >= 3
                /\ \/ includes(productName, word)
                   \/ includes(word, productName)
                   \/ \E k \in 1..Len(productWords) :
                        \/ startsWith(productWords[k], sliceTo(word, 3))
                        \/ startsWith(word, sliceTo(productWords[k], 3)))
  IN  IF trim(searchName) = <<>>
      THEN [product |-> NoProduct, confidence |-> "none",
            alternatives |-> <<>>, matchType |-> "empty_query"]
      ELSE IF exact # 0
      THEN [product |-> products[exact].id, confidence |-> "exact",
            alternatives |-> <<>>, matchType |-> "exact_match"]
      ELSE IF pluralMatch # 0
      THEN [product |-> products[pluralMatch].id, confidence |-> "exact",
            alternatives |-> <<>>, matchType |-> "singular_plural_match"]
      ELSE IF cleanAttempted(cleanedSearch, normalizedSearch)
              /\ cleanMatch # 0
      THEN [product |-> products[cleanMatch].id, confidence |-> "high",
            alternatives |-> <<>>, matchType |-> "cleaned_exact_match"]
      ELSE IF Len(fuzzyResults) > 0
      THEN [product |-> bestMatch.product,
            confidence |-> IF bestMatch.score <= 100 THEN "high"
                           ELSE IF bestMatch.score <= 300 THEN "medium"
                           ELSE "low",
            alternatives |->
              [i \in 1..Len(fuzzyAlternatives) |-> fuzzyAlternatives[i].product],
            matchType |-> "fuzzy_match"]
      ELSE IF Len(partialMatches) > 0
      THEN [product |-> partialMatches[1].id, confidence |-> "low",
            alternatives |-> Ids(slice(partialMatches, 1, 4)),
            matchType |-> "partial_word_match"]
      ELSE [product |-> NoProduct, confidence |-> "none",
            alternatives |-> getSuggestions(normalizedSearch, products, fzSug),
            matchType |-> "no_match"]

----------------------------------------------------------------------------
(* Data of the cart and order model *)

NoUser == "nobody"
U1 == "u1"

Apples == <<"A", "p", "p", "l", "e", "s">>
Milk == <<"M", "i", "l", "k">>

\* the products table, as loaded by fetchProducts (ordered by name)
Catalog ==
  << [id |-> "p1", name |-> Apples, price |-> 120, stock_quantity |-> 2,
      description |-> <<>>, category |-> <<"F", "r", "u", "i", "t", "s">>],
     [id |-> "p2", name |-> Milk, price |-> 60, stock_quantity |-> 1,
      description |-> <<>>, category |-> <<"D", "a", "i", "r", "y">>] >>

ProductIds == {Catalog[i].id : i \in 1..Len(Catalog)}

ProductById(id) == Catalog[CHOOSE i \in 1..Len(Catalog) : Catalog[i].id = id]

Outcomes == {"ok", "error", "throw"}

\* A cart (the cart_items rows of the user, or a copy of them held by the
\* application) is a function from the product ids that have a row to the
\* row's quantity: UNIQUE(user_id, product_id).
EmptyCart == [p \in {} |-> 0]

PutRow(c, p, q) == [x \in DOMAIN c \cup {p} |-> IF x = p THEN q ELSE c[x]]

DropRow(c, p) == [x \in DOMAIN c \ {p} |-> c[x]]

RECURSIVE SumOver(_, _)
SumOver(f, S) ==
  IF S = {} THEN 0
  ELSE LET x == CHOOSE x \in S : TRUE IN f[x] + SumOver(f, S \ {x})

\* .select('id, quantity, product:products(...)'): the rows of a cart c, each with the
\* price of its product in the products table pr at the time of the select
CartRows(c, pr) == [p \in DOMAIN c |-> [quantity |-> c[p], price |-> pr[p]]]

\* data.reduce((total, item) => total + (item.product?.price || 0) * item.quantity, 0)
CartTotal(items) ==
  SumOver([p \in DOMAIN items |-> items[p].price * items[p].quantity],
          DOMAIN items)

\* itemCount, were it the number of rows
CartCountRows(c) == Cardinality(DOMAIN c)

\* data.reduce((total, item) => total + item.quantity, 0)
CartCount(c) == SumOver(c, DOMAIN c)

----------------------------------------------------------------------------
(* context/AppContext.tsx: operations on a world w, the tables and the     *)
(* application state a handler reads and writes, with the log of storage   *)
(* calls it issued (w.ops) and whether an exception is propagating         *)
(* (w.thrown).  u and ci are the user and cartItems of the render whose    *)
(* closure runs; o, oW, oR are the outcomes of the storage calls.          *)

Log(w, by, op, table, o, awaited) ==
  [w EXCEPT !.ops = Append(@, [by |-> by, op |-> op, table |-> table, out |-> o,
                               awaited |-> awaited])]

\* refreshCart
refreshCart(w, u, o) ==
  IF u = NoUser THEN w
  ELSE LET w1 == Log(w, "refreshCart", "select", "cart_items", o, TRUE) IN
       CASE o = "throw" -> [w1 EXCEPT !.thrown = TRUE]
         [] o = "error" -> w1
         [] OTHER -> [w1 EXCEPT !.cartItems = w.cart]

\* removeFromCart, were the delete to name the user only
removeFromCartAll(w, u, productId, oW, oR) ==
  IF u = NoUser THEN w
  ELSE LET w1 == Log(w, "removeFromCart", "delete", "cart_items", oW, TRUE) IN
       CASE oW = "throw" -> [w1 EXCEPT !.thrown = TRUE]
         [] oW = "error" -> w1
         [] OTHER -> refreshCart([w1 EXCEPT !.cart = EmptyCart], u, oR)

\* removeFromCart
removeFromCart(w, u, productId, oW, oR) ==
  IF u = NoUser THEN w
  ELSE LET w1 == Log(w, "removeFromCart", "delete", "cart_items", oW, TRUE) IN
       CASE oW = "throw" -> [w1 EXCEPT !.thrown = TRUE]
         [] oW = "error" -> w1
         [] OTHER -> refreshCart([w1 EXCEPT !.cart = DropRow(@, productId)], u, oR)

\* updateCartQuantity, were the update to add the quantity to the stored one
updateCartQuantityAdding(w, u, productId, quantity, oW, oR) ==
  IF u = NoUser THEN w
  ELSE IF quantity <= 0 THEN removeFromCart(w, u, productId, oW, oR)
  ELSE LET w1 == Log(w, "updateCartQuantity", "update", "cart_items", oW, TRUE) IN
       CASE oW = "throw" -> [w1 EXCEPT !.thrown = TRUE]
         [] oW = "error" -> w1
         [] OTHER ->
              refreshCart([w1 EXCEPT !.cart =
                             IF productId \in DOMAIN @
                             THEN PutRow(@, productId, @[productId] + quantity)
                             ELSE @],
                          u, oR)

\* updateCartQuantity, were it to write a quantity of 0 as it writes any other
updateCartQuantityWritingZero(w, u, productId, quantity, oW, oR) ==
  IF u = NoUser THEN w
  ELSE LET w1 == Log(w, "updateCartQuantity", "update", "cart_items", oW, TRUE) IN
       CASE oW = "throw" -> [w1 EXCEPT !.thrown = TRUE]
         [] oW = "error" -> w1
         [] OTHER ->
              refreshCart([w1 EXCEPT !.cart =
                             IF productId \in DOMAIN @
                             THEN PutRow(@, productId, quantity) ELSE @],
                          u, oR)

\* updateCartQuantity
updateCartQuantity(w, u, productId, quantity, oW, oR) ==
  IF u = NoUser THEN w
  ELSE IF quantity <= 0 THEN removeFromCart(w, u, productId, oW, oR)
  ELSE LET w1 == Log(w, "updateCartQuantity", "update", "cart_items", oW, TRUE) IN
       CASE oW = "throw" -> [w1 EXCEPT !.thrown = TRUE]
         [] oW = "error" -> w1
         [] OTHER ->
              refreshCart([w1 EXCEPT !.cart =
                             IF productId \in DOMAIN @
                             THEN PutRow(@, productId, quantity) ELSE @],
                          u, oR)

\* refreshCart() called without await: the select is issued and its result
\* stored, an exception it raises is not the caller's
refreshCartInBackground(w, u, o) ==
  IF u = NoUser THEN w
  ELSE LET w1 == Log(w, "refreshCart", "select", "cart_items", o, FALSE) IN
       IF o = "ok" THEN [w1 EXCEPT !.cartItems = w.cart] ELSE w1

\* addToCart; an insert of a second row for (user, product) is refused by
\* the UNIQUE(user_id, product_id) constraint of cart_items
addToCart(w, u, ci, productId, quantity, oW, oR) ==
  IF u = NoUser THEN w
  ELSE IF productId \in DOMAIN ci
  THEN updateCartQuantity(w, u, productId, ci[productId] + quantity, oW, oR)
  ELSE LET o == IF oW = "ok" /\ productId \in DOMAIN w.cart THEN "error" ELSE oW
           w1 == Log(w, "addToCart", "insert", "cart_items", o, TRUE)
       IN  CASE o = "throw" -> [w1 EXCEPT !.thrown = TRUE]
             [] o = "error" -> w1
             [] OTHER ->
                  refreshCart([w1 EXCEPT !.cart = PutRow(@, productId, quantity)],
                              u, oR)

\* placeOrder, its guard: nothing is done without a user or without items
placeOrderReturnsAtOnce(u, itemsForOrder) ==
  u = NoUser \/ DOMAIN itemsForOrder = {}

\* placeOrder, "Create the order", were orderError not looked at
placeOrderInsertOrderUnchecked(w, itemsForOrder, o) ==
  LET w1 == Log(w, "placeOrder", "insert", "orders", o, TRUE) IN
  IF o # "ok" THEN w1
  ELSE [w1 EXCEPT !.orders = PutRow(@, w.nextId,
                                     [total_amount |-> CartTotal(itemsForOrder),
                                      status |-> "Pending"]),
                  !.nextId = @ + 1]

\* placeOrder, "Create the order", were the total computed from the prices
\* of the products table at the time of the insert
placeOrderInsertOrderRepriced(w, itemsForOrder, o) ==
  LET w1 == Log(w, "placeOrder", "insert", "orders", o, TRUE) IN
  IF o # "ok" THEN [w1 EXCEPT !.thrown = TRUE]
  ELSE [w1 EXCEPT !.orders = PutRow(@, w.nextId,
                                     [total_amount |->
                                        CartTotal([p \in DOMAIN itemsForOrder |->
                                                     [itemsForOrder[p] EXCEPT
                                                        !.price = w.price[p]]]),
                                      status |-> "Pending"]),
                  !.nextId = @ + 1]

\* placeOrder, "Create the order": the row gets the next id of the table
placeOrderInsertOrder(w, itemsForOrder, o) ==
  LET w1 == Log(w, "placeOrder", "insert", "orders", o, TRUE) IN
  IF o # "ok" THEN [w1 EXCEPT !.thrown = TRUE]
  ELSE [w1 EXCEPT !.orders = PutRow(@, w.nextId,
                                     [total_amount |-> CartTotal(itemsForOrder),
                                      status |-> "Pending"]),
                  !.nextId = @ + 1]

\* itemsForOrder.map(item => ({ order_id, product_id, quantity, price }))
OrderItemRows(orderId, itemsForOrder) ==
  {[order_id |-> orderId, product_id |-> p,
    quantity |-> itemsForOrder[p].quantity,
    price |-> itemsForOrder[p].price] : p \in DOMAIN itemsForOrder}

\* placeOrder, the insert into order_items; "failed" tells a returned error
\* (the order is then to be deleted) from success and from an exception
placeOrderInsertItems(w, orderId, itemsForOrder, o) ==
  LET w1 == Log(w, "placeOrder", "insert", "order_items", o, TRUE) IN
  CASE o = "throw" -> [w1 EXCEPT !.thrown = TRUE]
    [] o = "error" -> w1
    [] OTHER -> [w1 EXCEPT !.orderItems = @ \cup OrderItemRows(orderId, itemsForOrder)]

\* placeOrder, if (itemsError): the order is deleted, the result of the
\* delete is not looked at, and itemsError is thrown
placeOrderDeleteOrder(w, orderId, o) ==
  LET w1 == Log(w, "placeOrder", "delete", "orders", o, TRUE) IN
  [(IF o = "ok"
    THEN [w1 EXCEPT !.orders = DropRow(@, orderId),
                    !.orderItems = {r \in @ : r.order_id # orderId}]
    ELSE w1) EXCEPT !.thrown = TRUE]

\* placeOrder, were the delete of the cart rows to remove nothing
placeOrderClearCartKeeping(w, o) ==
  LET w1 == Log(w, "placeOrder", "delete", "cart_items", o, TRUE) IN
  IF o = "throw" THEN [w1 EXCEPT !.thrown = TRUE] ELSE w1

\* placeOrder, "Clear the user's cart in the database": the result of the
\* delete is not looked at
placeOrderClearCart(w, o) ==
  LET w1 == Log(w, "placeOrder", "delete", "cart_items", o, TRUE) IN
  CASE o = "throw" -> [w1 EXCEPT !.thrown = TRUE]
    [] o = "error" -> w1
    [] OTHER -> [w1 EXCEPT !.cart = EmptyCart]

----------------------------------------------------------------------------
(* components/VoiceAssistant.tsx: helpers of the client tools *)

\* fetchLatestCartState(userId): the fetched state r and the world after
fetchLatestCartState(w, userId, o) ==
  LET failure == [success |-> FALSE, items |-> EmptyCart,
                  totalAmount |-> 0, itemCount |-> 0]
  IN  IF userId = NoUser THEN [w |-> w, r |-> failure]
      ELSE LET w1 == Log(w, "fetchLatestCartState", "select", "cart_items", o, TRUE) IN
           IF o # "ok" THEN [w |-> w1, r |-> failure]
           ELSE [w |-> w1,
                 r |-> [success |-> TRUE, items |-> CartRows(w.cart, w.price),
                        totalAmount |-> CartTotal(CartRows(w.cart, w.price)),
                        itemCount |-> CartCount(w.cart)]]

\* findProductByName(searchName): null for an empty name
findProductByName(searchName, products, fz, fzSug) ==
  IF searchName = <<>>
  THEN [null |-> TRUE, product |-> NoProduct, confidence |-> "none"]
  ELSE LET result == findProduct(searchName, products, fz, fzSug) IN
       [null |-> FALSE, product |-> result.product,
        confidence |-> result.confidence]

\* Number(quantity) for a quantity argument: an integer or NaN
NumberOf(quantity) ==
  CASE quantity.kind = "number" -> [nan |-> FALSE, val |-> quantity.val]
    [] quantity.kind = "null" -> [nan |-> FALSE, val |-> 0]
    [] OTHER -> [nan |-> TRUE, val |-> 0]

\* a parameter default: ({ quantity = dflt })
Default(quantity, dflt) ==
  IF quantity.kind = "undefined" THEN [kind |-> "number", val |-> dflt]
  ELSE quantity

\* Number(quantity) || dflt, were the sign of the number dropped
NumberOrMagnitude(quantity, dflt) ==
  LET n == NumberOf(quantity) IN
  IF n.nan \/ n.val = 0 THEN dflt ELSE IF n.val < 0 THEN 0 - n.val ELSE n.val

\* Number(quantity) || dflt
NumberOr(quantity, dflt) ==
  LET n == NumberOf(quantity) IN
  IF n.nan \/ n.val = 0 THEN dflt ELSE n.val

\* a tool response: success, the message template and the values it carries
Response(tool, success, message) ==
  [tool |-> tool, success |-> success, message |-> message,
   product |-> NoProduct, quantity |-> 0, available |-> 0,
   itemCount |-> 0, totalAmount |-> 0, note |-> FALSE,
   products |-> <<>>, orders |-> <<>>, profileComplete |-> FALSE,
   cartSummary |-> [itemCount |-> 0, totalAmount |-> 0],
   matchConfidence |-> "none"]

NoResponse == Response("none", FALSE, "none")

\* the body of a tool without the try/catch around it
TryCatchAbsent(body, errorResponse) == body

\* try { body } catch (error) { return errorResponse }: what the tool
\* returns, and whether an exception leaves the tool
TryCatch(body, errorResponse) ==
  IF body.w.thrown
  THEN [w |-> [body.w EXCEPT !.thrown = FALSE], resp |-> errorResponse]
  ELSE body

Throw(w) == [w |-> [w EXCEPT !.thrown = TRUE], resp |-> NoResponse]

----------------------------------------------------------------------------
(* components/VoiceAssistant.tsx: the client tools that are one chain of   *)
(* awaited calls.  u, ci and products are the user, cartItems and products *)
(* of the render in which the conversation was started; matchResult is the *)
(* value of findProductByName(productName.trim()) in that render.          *)

\* clientTools.getCartDetails, were it not to look at user first
getCartDetailsUnguarded(w, u, o) ==
  TryCatch(
    LET f == fetchLatestCartState(w, u, o[1]) IN
    IF ~f.r.success THEN Throw(f.w)
    ELSE [w |-> f.w,
          resp |-> [Response("getCartDetails", TRUE,
                             IF DOMAIN f.r.items = {} THEN "cart_is_empty"
                             ELSE "cart_contents")
                      EXCEPT !.itemCount = f.r.itemCount,
                             !.totalAmount = f.r.totalAmount]],
    Response("getCartDetails", FALSE, "failed"))

\* clientTools.getCartDetails
getCartDetails(w, u, o) ==
  IF u = NoUser
  THEN [w |-> w, resp |-> Response("getCartDetails", FALSE, "sign_in")]
  ELSE TryCatch(
         LET f == fetchLatestCartState(w, u, o[1]) IN
         IF ~f.r.success THEN Throw(f.w)
         ELSE [w |-> f.w,
               resp |-> [Response("getCartDetails", TRUE,
                                  IF DOMAIN f.r.items = {} THEN "cart_is_empty"
                                  ELSE "cart_contents")
                           EXCEPT !.itemCount = f.r.itemCount,
                                  !.totalAmount = f.r.totalAmount]],
         Response("getCartDetails", FALSE, "failed"))

\* clientTools.addItemToCart, were the stock test to refuse the last unit
addItemToCartShort(w, u, ci, productName, quantity, matchResult, o) ==
  IF productName = <<>> \/ u = NoUser
  THEN [w |-> w,
        resp |-> Response("addItemToCart", FALSE,
                          IF u = NoUser THEN "sign_in" ELSE "name_required")]
  ELSE TryCatch(
         LET validQuantity == IF NumberOr(Default(quantity, 1), 1) < 1 THEN 1
                              ELSE NumberOr(Default(quantity, 1), 1)
             product == ProductById(matchResult.product)
             w1 == addToCart(w, u, ci, product.id, validQuantity, o[1], o[2])
             w3 == refreshCartInBackground(w1, u, o[3])
             latestCart == fetchLatestCartState(w3, u, o[4])
         IN  IF matchResult.null THEN Throw(w)
             ELSE IF matchResult.product = NoProduct
             THEN [w |-> w, resp |-> Response("addItemToCart", FALSE, "not_found")]
             ELSE IF product.stock_quantity <= validQuantity
             THEN [w |-> w,
                   resp |-> [Response("addItemToCart", FALSE, "only_available")
                               EXCEPT !.product = product.id,
                                      !.available = product.stock_quantity]]
             ELSE IF w1.thrown THEN Throw(w1)
             ELSE IF ~latestCart.r.success
             THEN [w |-> latestCart.w,
                   resp |-> Response("addItemToCart", FALSE, "added_but_no_totals")]
             ELSE [w |-> latestCart.w,
                   resp |-> [Response("addItemToCart", TRUE, "added")
                               EXCEPT !.product = product.id,
                                      !.quantity = validQuantity,
                                      !.note = (matchResult.confidence # "high"),
                                     !.matchConfidence = matchResult.confidence,
                                      !.itemCount = latestCart.r.itemCount,
                                      !.totalAmount = latestCart.r.totalAmount]],
         Response("addItemToCart", FALSE, "failed"))

\* clientTools.addItemToCart
addItemToCart(w, u, ci, productName, quantity, matchResult, o) ==
  IF productName = <<>> \/ u = NoUser
  THEN [w |-> w,
        resp |-> Response("addItemToCart", FALSE,
                          IF u = NoUser THEN "sign_in" ELSE "name_required")]
  ELSE TryCatch(
         LET validQuantity == IF NumberOr(Default(quantity, 1), 1) < 1 THEN 1
                              ELSE NumberOr(Default(quantity, 1), 1)
             product == ProductById(matchResult.product)
             w1 == addToCart(w, u, ci, product.id, validQuantity, o[1], o[2])
             w3 == refreshCartInBackground(w1, u, o[3])
             latestCart == fetchLatestCartState(w3, u, o[4])
         IN  IF matchResult.null THEN Throw(w)
             ELSE IF matchResult.product = NoProduct
             THEN [w |-> w, resp |-> Response("addItemToCart", FALSE, "not_found")]
             ELSE IF product.stock_quantity < validQuantity
             THEN [w |-> w,
                   resp |-> [Response("addItemToCart", FALSE, "only_available")
                               EXCEPT !.product = product.id,
                                      !.available = product.stock_quantity]]
             ELSE IF w1.thrown THEN Throw(w1)
             ELSE IF ~latestCart.r.success
             THEN [w |-> latestCart.w,
                   resp |-> Response("addItemToCart", FALSE, "added_but_no_totals")]
             ELSE [w |-> latestCart.w,
                   resp |-> [Response("addItemToCart", TRUE, "added")
                               EXCEPT !.product = product.id,
                                      !.quantity = validQuantity,
                                      !.note = (matchResult.confidence # "high"),
                                     !.matchConfidence = matchResult.confidence,
                                      !.itemCount = latestCart.r.itemCount,
                                      !.totalAmount = latestCart.r.totalAmount]],
         Response("addItemToCart", FALSE, "failed"))

\* clientTools.removeItemFromCart
removeItemFromCart(w, u, productName, matchResult, o) ==
  IF productName = <<>> \/ u = NoUser
  THEN [w |-> w,
        resp |-> Response("removeItemFromCart", FALSE,
                          IF u = NoUser THEN "sign_in" ELSE "name_required")]
  ELSE TryCatch(
         LET initialCart == fetchLatestCartState(w, u, o[1])
             w1 == removeFromCart(initialCart.w, u, matchResult.product, o[2], o[3])
             w2 == refreshCartInBackground(w1, u, o[4])
             latestCart == fetchLatestCartState(w2, u, o[5])
         IN  IF ~initialCart.r.success
             THEN [w |-> initialCart.w,
                   resp |-> Response("removeItemFromCart", FALSE, "cart_not_checked")]
             ELSE IF matchResult.null THEN Throw(initialCart.w)
             ELSE IF matchResult.product = NoProduct
             THEN [w |-> initialCart.w,
                   resp |-> Response("removeItemFromCart", FALSE, "not_found")]
             ELSE IF matchResult.product \notin DOMAIN initialCart.r.items
             THEN [w |-> initialCart.w,
                   resp |-> [Response("removeItemFromCart", FALSE, "not_in_cart")
                               EXCEPT !.product = matchResult.product]]
             ELSE IF w1.thrown THEN Throw(w1)
             ELSE IF ~latestCart.r.success
             THEN [w |-> latestCart.w,
                   resp |-> Response("removeItemFromCart", FALSE, "removed_but_no_totals")]
             ELSE [w |-> latestCart.w,
                   resp |-> [Response("removeItemFromCart", TRUE, "removed")
                               EXCEPT !.product = matchResult.product,
                                      !.itemCount = latestCart.r.itemCount,
                                      !.totalAmount = latestCart.r.totalAmount]],
         Response("removeItemFromCart", FALSE, "failed"))

\* clientTools.updateCartItemQuantity
updateCartItemQuantity(w, u, products, productName, quantity, matchResult, o) ==
  IF productName = <<>> \/ quantity.kind = "undefined" \/ u = NoUser
  THEN [w |-> w,
        resp |-> Response("updateCartItemQuantity", FALSE,
                          IF u = NoUser THEN "sign_in"
                          ELSE "name_and_quantity_required")]
  ELSE TryCatch(
         LET validQuantity == NumberOr(quantity, 0)
             initialCart == fetchLatestCartState(w, u, o[1])
             inDB == FindIndex(products, LAMBDA p : p.id = matchResult.product)
             w1 == IF validQuantity = 0
                   THEN removeFromCart(initialCart.w, u, matchResult.product,
                                       o[2], o[3])
                   ELSE updateCartQuantity(initialCart.w, u, matchResult.product,
                                           validQuantity, o[2], o[3])
             w2 == refreshCartInBackground(w1, u, o[4])
             latestCart == fetchLatestCartState(w2, u, o[5])
         IN  IF validQuantity < 0
             THEN [w |-> w,
                   resp |-> Response("updateCartItemQuantity", FALSE, "negative")]
             ELSE IF ~initialCart.r.success
             THEN [w |-> initialCart.w,
                   resp |-> Response("updateCartItemQuantity", FALSE, "cart_not_checked")]
             ELSE IF matchResult.null THEN Throw(initialCart.w)
             ELSE IF matchResult.product = NoProduct
             THEN [w |-> initialCart.w,
                   resp |-> Response("updateCartItemQuantity", FALSE, "not_found")]
             ELSE IF matchResult.product \notin DOMAIN initialCart.r.items
             THEN [w |-> initialCart.w,
                   resp |-> [Response("updateCartItemQuantity", FALSE, "not_in_cart")
                               EXCEPT !.product = matchResult.product]]
             ELSE IF inDB # 0 /\ products[inDB].stock_quantity < validQuantity
             THEN [w |-> initialCart.w,
                   resp |-> [Response("updateCartItemQuantity", FALSE, "only_available")
                               EXCEPT !.product = matchResult.product,
                                      !.available = products[inDB].stock_quantity]]
             ELSE IF w1.thrown THEN Throw(w1)
             ELSE IF ~latestCart.r.success
             THEN [w |-> latestCart.w,
                   resp |-> Response("updateCartItemQuantity", FALSE,
                                     "updated_but_no_totals")]
             ELSE [w |-> latestCart.w,
                   resp |-> [Response("updateCartItemQuantity", TRUE,
                                      IF validQuantity = 0 THEN "removed"
                                      ELSE "updated")
                               EXCEPT !.product = matchResult.product,
                                      !.quantity = validQuantity,
                                      !.itemCount = latestCart.r.itemCount,
                                      !.totalAmount = latestCart.r.totalAmount]],
         Response("updateCartItemQuantity", FALSE, "failed"))

\* getUserProfile(): the profile read from the auth service, or null
getUserProfile(w, u, profile, o) ==
  IF u = NoUser THEN [w |-> w, null |-> TRUE, profile |-> profile]
  ELSE [w |-> Log(w, "getUserProfile", "getUser", "auth", o, TRUE),
        null |-> (o # "ok"), profile |-> profile]

\* getUserStatus: isProfileComplete
isProfileComplete(userProfile) ==
  /\ ~userProfile.null
  /\ userProfile.profile.phone # <<>>
  /\ Len(userProfile.profile.phone) >= 10
  /\ userProfile.profile.address # <<>>
  /\ Len(userProfile.profile.address) >= 10

\* the profile check of the placeOrder tool, were it to look at the phone only
placeOrderProfileOkPhoneOnly(userProfile) ==
  ~ \/ userProfile.null
    \/ userProfile.profile.phone = <<>>
    \/ Len(trim(userProfile.profile.phone)) < 10

\* the profile check of the placeOrder tool
placeOrderProfileOk(userProfile) ==
  ~ \/ userProfile.null
    \/ userProfile.profile.phone = <<>>
    \/ Len(trim(userProfile.profile.phone)) < 10
    \/ userProfile.profile.address = <<>>
    \/ Len(trim(userProfile.profile.address)) < 10

\* clientTools.getAvailableProducts (the implementation of the first
\* version of the component, which the second one keeps)
getAvailableProducts(w, products, category, searchTerm, limit, fz) ==
  LET byCategory ==
        IF category # <<>>
        THEN SelectSeq(products, LAMBDA p :
               includes(toLowerCase(p.category), toLowerCase(category)))
        ELSE products
      fuzzyResults == search(trim(searchTerm), 50, fz)
      bySearch ==
        IF searchTerm # <<>>
        THEN SelectSeq(byCategory, LAMBDA p :
               \/ includes(toLowerCase(p.name), toLowerCase(searchTerm))
               \/ /\ p.description # <<>>
                  /\ includes(toLowerCase(p.description), toLowerCase(searchTerm))
               \/ \E i \in 1..Len(fuzzyResults) : fuzzyResults[i].product = p.id)
        ELSE byCategory
      inStock == SelectSeq(bySearch, LAMBDA p : p.stock_quantity > 0)
      n == NumberOr(Default(limit, 10), 10)
      validLimit == IF n < 1 THEN 1 ELSE IF n > 50 THEN 50 ELSE n
      filteredProducts == slice(inStock, 0, validLimit)
  IN  [w |-> w,
       resp |-> [Response("getAvailableProducts", TRUE,
                          IF Len(filteredProducts) = 0 THEN "no_products"
                          ELSE "found_products")
                   EXCEPT !.products = Ids(filteredProducts),
                          !.itemCount = Len(filteredProducts)]]

\* order ids, newest first: .order('created_at', { ascending: false })
RECURSIVE NewestFirst(_)
NewestFirst(S) ==
  IF S = {} THEN <<>>
  ELSE LET m == CHOOSE x \in S : \A y \in S : y <= x
       IN  <<m>> \o NewestFirst(S \ {m})

\* clientTools.getPurchaseHistory (the implementation of the first version
\* of the component, which the second one keeps); orderId 0 is no orderId
getPurchaseHistory(w, u, limit, orderId, o) ==
  IF u = NoUser
  THEN [w |-> w, resp |-> Response("getPurchaseHistory", FALSE, "sign_in")]
  ELSE TryCatch(
         LET found == orderId \in DOMAIN w.orders
             out == IF o[1] = "ok" /\ orderId # 0 /\ ~found THEN "error" ELSE o[1]
             w1 == Log(w, "getPurchaseHistory", "select", "orders", out, TRUE)
             data == IF orderId # 0 THEN <<orderId>>
                     ELSE slice(NewestFirst(DOMAIN w.orders), 0, limit)
         IN  IF out # "ok" THEN Throw(w1)
             ELSE [w |-> w1,
                   resp |-> [Response("getPurchaseHistory", TRUE, "found_orders")
                               EXCEPT !.orders = data,
                                      !.itemCount = Len(data)]],
         Response("getPurchaseHistory", FALSE, "failed"))

\* clientTools.getUserStatus
getUserStatus(w, u, profile, o) ==
  TryCatch(
    IF u # NoUser
    THEN LET latestCart == fetchLatestCartState(w, u, o[1])
             userProfile == getUserProfile(latestCart.w, u, profile, o[2])
         IN  [w |-> userProfile.w,
              resp |-> [Response("getUserStatus", TRUE, "signed_in")
                          EXCEPT !.itemCount = latestCart.r.itemCount,
                                 !.totalAmount = latestCart.r.totalAmount,
                                 !.profileComplete = isProfileComplete(userProfile)]]
    ELSE [w |-> w, resp |-> Response("getUserStatus", TRUE, "not_signed_in")],
    Response("getUserStatus", FALSE, "failed"))

----------------------------------------------------------------------------
(* State *)

VARIABLES
  user,           \* AppContext state: the signed-in user, or NoUser
  cartItems,      \* AppContext state: the cart as last loaded
  cart,           \* table cart_items: the rows of the user
  orders,         \* table orders: order id -> row
  orderItems,     \* table order_items: set of rows
  nextId,         \* the id the next inserted order gets
  price,          \* table products: product id -> price
  session,        \* a voice conversation is running
  sessUser,       \* user of the render that started the conversation
  sessCartItems,  \* cartItems of the render that started the conversation
  pc,             \* position of the running placeOrder tool call, or "idle"
  po,             \* locals of the running placeOrder tool call
  resp,           \* response of the tool call that ended in the last step
  ops,            \* storage calls issued by the current or last tool call
  escaped,        \* an exception left the tool that ended in the last step
  args,           \* arguments of the tool call that ended in the last step
  prev,           \* the last answered call, if it added or set a quantity
  loadedProducts, \* AppContext state: products, as last loaded
  fpCatalog,      \* this.products of the matcher the tools hold
  fpQuery,        \* matcher specification: the last query
  fpFuse,         \* matcher specification: fuse's answer for the last query
  fpResult,       \* matcher specification: the result for the last query
  cartPanel,      \* Cart component: open or not, its state while open
  po2             \* a placeOrder tool call of another session of the user

toolVars == <<user, cartItems, cart, orders, orderItems, nextId, price,
              session, sessUser, sessCartItems, pc, po, resp, ops, escaped,
              args, prev>>

fpVars == <<loadedProducts, fpCatalog, fpQuery, fpFuse, fpResult>>

coVars == <<cartPanel, po2>>

vars == <<toolVars, fpVars, coVars>>

Nine == [i \in 1..9 |-> "9"]

\* account profiles (the user_metadata held by the auth service, read anew
\* by every getUserProfile): complete; phone of 9 digits; phone of 9 digits and a
\* trailing blank; no address
Profiles ==
  { [full_name |-> <<"A">>, phone |-> Nine \o <<"9">>, address |-> Nine \o <<"9">>],
    [full_name |-> <<"A">>, phone |-> Nine, address |-> Nine \o <<"9">>],
    [full_name |-> <<>>, phone |-> Nine \o <<" ">>, address |-> Nine \o <<"9">>],
    [full_name |-> <<"A">>, phone |-> Nine \o <<"9">>, address |-> <<>>] }

NoResult == [product |-> NoProduct, confidence |-> "none",
             alternatives |-> <<>>, matchType |-> "not_run"]

\* the tool call before, when it was an add or an update that succeeded with
\* all its storage calls and nothing has written to the cart since: its
\* product and quantity, the stored cart before it and after it
NoPrev == [tool |-> "none", product |-> NoProduct, quantity |-> 0,
           before |-> EmptyCart, cart |-> EmptyCart]

NoProfile == [full_name |-> <<>>, phone |-> <<>>, address |-> <<>>]

\* the arguments of a tool call, with what was read for it: the product the
\* name resolved to, the profile held by the auth service, and the stored
\* cart when the call was made
NoArgs == [productName |-> <<>>, quantity |-> [kind |-> "undefined", val |-> 0],
           product |-> NoProduct, profile |-> NoProfile, cartAtCall |-> EmptyCart]

Args(n, q) == [NoArgs EXCEPT !.productName = n.name, !.quantity = q,
                             !.product = n.matchResult.product,
                             !.cartAtCall = cart]

\* locals of a placeOrder call: cartBeforeOrder, orderData.id; and what the
\* properties need of its history: the stored cart when it was called, and
\* the number of handlers of the user interface that ran during it
NoPlaceOrder == [items |-> EmptyCart, totalAmount |-> 0, itemCount |-> 0,
                 userProfile |-> [null |-> TRUE, profile |-> NoProfile],
                 orderId |-> 0, cartAtCall |-> EmptyCart, interleaved |-> 0]

\* the world a handler starts in
World == [cart |-> cart, cartItems |-> cartItems, orders |-> orders,
          orderItems |-> orderItems, nextId |-> nextId, price |-> price,
          ops |-> <<>>, thrown |-> FALSE]

\* the tables and application state after a handler
Commit(w) ==
  /\ cart' = w.cart
  /\ cartItems' = w.cartItems
  /\ orders' = w.orders
  /\ orderItems' = w.orderItems
  /\ nextId' = w.nextId
  /\ price' = w.price

\* a tool call returns: its response, its storage calls, its exception
Return(b) ==
  /\ Commit(b.w)
  /\ resp' = b.resp
  /\ ops' = b.w.ops
  /\ escaped' = b.w.thrown

\* the Cart component when the panel is closed: isOpen, userProfile,
\* isPlacingOrder; and how the panel was closed last
NoPanel == [isOpen |-> FALSE,
            userProfile |-> [null |-> TRUE, profile |-> NoProfile],
            isPlacingOrder |-> FALSE, closedBy |-> "none"]

\* locals of the placeOrder call of another session: its position,
\* cartBeforeOrder.items, orderData.id
NoPlaceOrder2 == [pc |-> "idle", items |-> EmptyCart, orderId |-> 0]

InitTools ==
  /\ cartPanel = NoPanel
  /\ po2 = NoPlaceOrder2
  /\ user \in {NoUser, U1}
  /\ cartItems = EmptyCart
  /\ cart = EmptyCart
  /\ orders = [i \in {} |-> 0]
  /\ orderItems = {}
  /\ nextId = 1
  /\ price = [p \in ProductIds |-> ProductById(p).price]
  /\ session = FALSE
  /\ sessUser = NoUser
  /\ sessCartItems = EmptyCart
  /\ pc = "idle"
  /\ po = NoPlaceOrder
  /\ resp = NoResponse
  /\ ops = <<>>
  /\ escaped = FALSE
  /\ args = NoArgs
  /\ prev = NoPrev

InitNoMatcher ==
  /\ loadedProducts = Catalog
  /\ fpCatalog = <<>>
  /\ fpQuery = <<>>
  /\ fpFuse = <<>>
  /\ fpResult = NoResult

Init == InitTools /\ InitNoMatcher

----------------------------------------------------------------------------
(* Inputs of the tool calls *)

Aples == <<"a", "p", "l", "e", "s">>

Fuse(id, score) == <<[product |-> id, score |-> score]>>

\* product names said to the assistant, each with the answer of fuse for it:
\* empty, blank, two exact names, a misspelling that fuse resolves, and one
\* it does not
NameInputs ==
  { [name |-> <<>>, fz |-> <<>>],
    [name |-> <<" ">>, fz |-> <<>>],
    [name |-> Apples, fz |-> <<>>],
    [name |-> <<" ", "m", "i", "l", "k">>, fz |-> <<>>],
    [name |-> Aples, fz |-> Fuse("p1", 200)],
    [name |-> Aples, fz |-> <<>>] }

\* the names said, each with findProductByName(productName.trim()) over the
\* products of the render that started the conversation
Resolved ==
  {[name |-> n.name,
    matchResult |-> findProductByName(trim(n.name), Catalog, n.fz, <<>>)] :
     n \in NameInputs}

Num(v) == [kind |-> "number", val |-> v]

\* quantity arguments: numbers, a missing argument, null, a non-numeric text
QuantityInputs ==
  {Num(v) : v \in (-1)..MaxQty}
    \cup {[kind |-> k, val |-> 0] : k \in {"undefined", "null", "text"}}

\* The outcomes of the storage calls of one handler, in the order of issue.
\* Two vectors that differ only at calls the handler does not reach are the
\* same input; a handler is run on the one that has "ok" at unreached calls.
AllOk == [i \in 1..5 |-> "ok"]

\* the elements of S that satisfy P, as an enumerated set
Those(S, P(_)) == UNION {IF P(o) THEN {o} ELSE {} : o \in S}

\* handlers that write, refresh, (refresh in the background, fetch): no
\* refresh after a failed write, nothing after an exception; a failure of
\* the refresh in the background is the same input whether it is a returned
\* error or an exception
WriteFirst ==
  Those([1..5 -> Outcomes], LAMBDA o :
     /\ o[5] = "ok"
     /\ o[3] # "throw"
     /\ o[1] # "ok" => o[2] = "ok"
     /\ (o[1] = "throw" \/ o[2] = "throw") => (o[3] = "ok" /\ o[4] = "ok"))

\* handlers that fetch and then go on as above when the fetch succeeded
FetchFirst ==
  Those([1..5 -> Outcomes], LAMBDA o :
     /\ o[4] # "throw"
     /\ o[1] # "ok" => \A i \in 2..5 : o[i] = "ok"
     /\ o[2] # "ok" => o[3] = "ok"
     /\ (o[2] = "throw" \/ o[3] = "throw") => (o[4] = "ok" /\ o[5] = "ok"))

\* handlers that issue up to two calls whatever the outcome of the first
TwoCalls == Those([1..5 -> Outcomes], LAMBDA o : \A i \in 3..5 : o[i] = "ok")

\* the vectors of S that have "ok" at every call after the n-th
OkAfter(S, n) == Those(S, LAMBDA o : \A i \in DOMAIN o : i > n => o[i] = "ok")

Upto(S) == <<OkAfter(S, 1), OkAfter(S, 2), OkAfter(S, 3), OkAfter(S, 4), S>>

WriteFirstUpto == Upto(WriteFirst)
FetchFirstUpto == Upto(FetchFirst)
TwoCallsUpto == Upto(TwoCalls)

\* the vectors to run a handler T on: those with "ok" at the calls T does
\* not reach when every call succeeds (a failure adds no call)
Scripts(T(_), upto) ==
  LET n == Len(T(AllOk).w.ops) IN IF n = 0 THEN {AllOk} ELSE upto[n]

Reached(o, w) == \A i \in DOMAIN o : i > Len(w.ops) => o[i] = "ok"

CartWithinBound(c) == \A p \in DOMAIN c : c[p] <= MaxRowQty

----------------------------------------------------------------------------
(* Actions *)

\* orders can still be placed within the bound, or one is being placed; the
\* cart is written to only then
Shopping == nextId <= MaxOrders \/ pc \notin {"idle", "responded"}

\* startConversation: the tools close over the current render, its user,
\* its cartItems, its products and its fuzzySearch (built over its products)
StartConversation ==
  /\ ~session
  /\ pc = "idle"
  /\ session' = TRUE
  /\ sessUser' = user
  /\ sessCartItems' = cartItems
  /\ fpCatalog' = loadedProducts
  /\ UNCHANGED <<user, cartItems, cart, orders, orderItems, nextId, price,
                 pc, po, resp, ops, escaped, args, prev,
                 loadedProducts, fpQuery, fpFuse, fpResult, coVars>>

\* stopConversation
StopConversation ==
  /\ session
  /\ pc = "idle"
  /\ session' = FALSE
  /\ sessUser' = NoUser
  /\ sessCartItems' = EmptyCart
  /\ fpCatalog' = <<>>
  /\ UNCHANGED <<user, cartItems, cart, orders, orderItems, nextId, price,
                 pc, po, resp, ops, escaped, args, prev,
                 loadedProducts, fpQuery, fpFuse, fpResult, coVars>>

\* a handler of the user interface can run: between two tool calls, or
\* while a placeOrder call awaits
UIEnabled ==
  /\ user # NoUser
  /\ pc # "responded"
  /\ Shopping
  /\ pc # "idle" => po.interleaved < MaxInterleave

\* a handler of the user interface ran
AfterUI(w, o) ==
  /\ Reached(o, w)
  /\ CartWithinBound(w.cart)
  /\ Commit(w)
  /\ po' = IF pc = "idle" THEN po ELSE [po EXCEPT !.interleaved = @ + 1]
  /\ prev' = NoPrev
  /\ UNCHANGED <<user, session, sessUser, sessCartItems, pc, resp, ops, escaped,
                 args, fpVars, coVars>>

\* the "add to cart" button: addToCart of the current render
UIAddToCart ==
  /\ UIEnabled
  /\ \E p \in ProductIds, q \in 1..MaxQty, o \in TwoCalls :
       AfterUI(addToCart(World, user, cartItems, p, q, o[1], o[2]), o)

\* the quantity buttons of the cart panel: updateCartQuantity of the
\* current render
UIUpdateCartQuantity ==
  /\ UIEnabled
  /\ \E p \in DOMAIN cartItems, q \in 0..MaxQty, o \in TwoCalls :
       AfterUI(updateCartQuantity(World, user, p, q, o[1], o[2]), o)

\* the agent can call a tool
Callable == session /\ pc = "idle"

\* a tool call that is one chain of awaited calls, under outcomes o
ToolCall(b, o, a) ==
  /\ Reached(o, b.w)
  /\ CartWithinBound(b.w.cart)
  /\ Return(b)
  /\ args' = a
  /\ pc' = "responded"
  /\ UNCHANGED <<user, session, sessUser, sessCartItems, po, prev, fpVars, coVars>>

\* the response is handed to the agent; the next tool call can be made
Deliver ==
  /\ pc = "responded"
  /\ pc' = "idle"
  /\ resp' = NoResponse
  /\ ops' = <<>>
  /\ escaped' = FALSE
  /\ args' = NoArgs
  /\ po' = NoPlaceOrder
  /\ prev' = IF resp.message \in {"updated", "added"}
                /\ \A i \in 1..Len(ops) : ops[i].out = "ok"
             THEN [tool |-> resp.tool, product |-> resp.product,
                   quantity |-> resp.quantity,
                   before |-> args.cartAtCall, cart |-> cart]
             ELSE NoPrev
  /\ UNCHANGED <<user, cartItems, cart, orders, orderItems, nextId, price,
                 session, sessUser, sessCartItems, fpVars, coVars>>

GetCartDetails ==
  /\ Callable
  /\ \E o \in Scripts(LAMBDA v : getCartDetails(World, sessUser, v), TwoCallsUpto) :
       ToolCall(getCartDetails(World, sessUser, o), o, NoArgs)

AddItemToCart ==
  /\ Callable
  /\ Shopping
  /\ \E n \in Resolved, q \in QuantityInputs :
       \E o \in Scripts(LAMBDA v : addItemToCart(World, sessUser, sessCartItems,
                                     n.name, q, n.matchResult, v), WriteFirstUpto) :
         ToolCall(addItemToCart(World, sessUser, sessCartItems,
                                n.name, q, n.matchResult, o), o, Args(n, q))

RemoveItemFromCart ==
  /\ Callable
  /\ Shopping
  /\ \E n \in Resolved :
       \E o \in Scripts(LAMBDA v : removeItemFromCart(World, sessUser,
                                     n.name, n.matchResult, v), FetchFirstUpto) :
         ToolCall(removeItemFromCart(World, sessUser, n.name, n.matchResult, o), o,
                  Args(n, NoArgs.quantity))

UpdateCartItemQuantity ==
  /\ Callable
  /\ Shopping
  /\ \E n \in Resolved, q \in QuantityInputs :
       \E o \in Scripts(LAMBDA v : updateCartItemQuantity(World, sessUser, Catalog,
                                     n.name, q, n.matchResult, v), FetchFirstUpto) :
         ToolCall(updateCartItemQuantity(World, sessUser, Catalog,
                                         n.name, q, n.matchResult, o), o,
                  Args(n, q))

\* what is asked of getAvailableProducts: a search term with the answer of
\* fuse for it
SearchInputs ==
  { [term |-> <<>>, fz |-> <<>>],
    [term |-> Aples, fz |-> Fuse("p1", 200)],
    [term |-> Aples, fz |-> <<>>] }

GetAvailableProducts ==
  /\ Callable
  /\ \E category \in {<<>>, <<"f", "r", "u">>}, t \in SearchInputs,
        limit \in {Num(1), [kind |-> "undefined", val |-> 0]} :
       ToolCall(getAvailableProducts(World, Catalog, category, t.term, limit, t.fz),
                AllOk, [NoArgs EXCEPT !.quantity = limit])

GetPurchaseHistory ==
  /\ Callable
  /\ \E limit \in {1, MaxOrders + 1}, orderId \in 0..MaxOrders :
       \E o \in Scripts(LAMBDA v : getPurchaseHistory(World, sessUser, limit, orderId, v),
                        TwoCallsUpto) :
         ToolCall(getPurchaseHistory(World, sessUser, limit, orderId, o), o, NoArgs)

GetUserStatus ==
  /\ Callable
  /\ \E profile \in Profiles :
       \E o \in Scripts(LAMBDA v : getUserStatus(World, sessUser, profile, v),
                        TwoCallsUpto) :
         ToolCall(getUserStatus(World, sessUser, profile, o), o,
                  [NoArgs EXCEPT !.profile = profile])

----------------------------------------------------------------------------
(* clientTools.placeOrder, one step for each call it awaits: handlers of    *)
(* the user interface can run between two of them                           *)

PlaceOrderSteps == {"fetchLatestCartState", "getUserProfile", "insert_order",
                    "insert_order_items", "delete_order", "clear_cart",
                    "refreshCart"}

\* the world a step of the call starts in: the calls issued so far are kept
PoWorld == [World EXCEPT !.ops = ops]

\* the call goes on to its next awaited call
PoGo(w, next) ==
  /\ Commit(w)
  /\ ops' = w.ops
  /\ pc' = next
  /\ UNCHANGED <<user, session, sessUser, sessCartItems, resp, escaped, args,
                 prev, fpVars, coVars>>

\* the call returns, through the catch of the tool
PoEnd(b) ==
  /\ Return(TryCatch(b, Response("placeOrder", FALSE, "failed")))
  /\ pc' = "responded"
  /\ UNCHANGED <<user, session, sessUser, sessCartItems, args, prev, fpVars, coVars>>

\* the tool is called: if (!user)
PlaceOrder ==
  /\ Callable
  /\ nextId <= MaxOrders
  /\ po' = [NoPlaceOrder EXCEPT !.cartAtCall = cart]
  /\ IF sessUser = NoUser
     THEN PoEnd([w |-> World, resp |-> Response("placeOrder", FALSE, "sign_in")])
     ELSE PoGo(World, "fetchLatestCartState")

\* const cartBeforeOrder = await fetchLatestCartState(user.id)
PoFetchLatestCartState ==
  /\ pc = "fetchLatestCartState"
  /\ \E o \in Outcomes :
       LET f == fetchLatestCartState(PoWorld, sessUser, o) IN
       IF ~f.r.success \/ DOMAIN f.r.items = {}
       THEN /\ PoEnd([w |-> f.w,
                      resp |-> Response("placeOrder", FALSE, "cart_is_empty")])
            /\ po' = po
       ELSE /\ PoGo(f.w, "getUserProfile")
            /\ po' = [po EXCEPT !.items = f.r.items,
                                !.totalAmount = f.r.totalAmount,
                                !.itemCount = f.r.itemCount]

\* const userProfile = await getUserProfile(), and the check of it
PoGetUserProfile ==
  /\ pc = "getUserProfile"
  /\ \E profile \in Profiles, o \in Outcomes :
       LET userProfile == getUserProfile(PoWorld, sessUser, profile, o) IN
       /\ po' = [po EXCEPT !.userProfile = [null |-> userProfile.null,
                                            profile |-> userProfile.profile]]
       /\ IF ~placeOrderProfileOk(userProfile)
          THEN PoEnd([w |-> userProfile.w,
                      resp |-> Response("placeOrder", FALSE, "profile_incomplete")])
          ELSE PoGo(userProfile.w, "insert_order")

\* the response of the tool after placeOrder of the context returned: the
\* message ends "Your cart is now empty." and the cartSummary is the
\* literal { itemCount: 0, totalAmount: 0 }
OrderPlaced(w) ==
  [w |-> w,
   resp |-> [Response("placeOrder", TRUE, "order_placed")
               EXCEPT !.itemCount = po.itemCount,
                      !.totalAmount = po.totalAmount,
                      !.cartSummary = [itemCount |-> 0, totalAmount |-> 0]]]

\* await placeOrder(...) of the context, up to the insert of the order
PoInsertOrder ==
  /\ pc = "insert_order"
  /\ IF placeOrderReturnsAtOnce(sessUser, po.items)
     THEN PoEnd(OrderPlaced(PoWorld)) /\ po' = po
     ELSE \E o \in Outcomes :
            LET w1 == placeOrderInsertOrder(PoWorld, po.items, o) IN
            IF w1.thrown
            THEN PoEnd(Throw(w1)) /\ po' = po
            ELSE PoGo(w1, "insert_order_items")
                 /\ po' = [po EXCEPT !.orderId = nextId]

\* the insert of the order items
PoInsertOrderItems ==
  /\ pc = "insert_order_items"
  /\ po' = po
  /\ \E o \in Outcomes :
       LET w1 == placeOrderInsertItems(PoWorld, po.orderId, po.items, o) IN
       IF w1.thrown THEN PoEnd(Throw(w1))
       ELSE PoGo(w1, IF o = "error" THEN "delete_order" ELSE "clear_cart")

\* if (itemsError): delete the order, throw itemsError
PoDeleteOrder ==
  /\ pc = "delete_order"
  /\ po' = po
  /\ \E o \in Outcomes : PoEnd(Throw(placeOrderDeleteOrder(PoWorld, po.orderId, o)))

\* the delete of the cart rows
PoClearCart ==
  /\ pc = "clear_cart"
  /\ po' = po
  /\ \E o \in Outcomes :
       LET w1 == placeOrderClearCart(PoWorld, o) IN
       IF w1.thrown THEN PoEnd(Throw(w1)) ELSE PoGo(w1, "refreshCart")

\* await refreshCart(), and the return of the tool
PoRefreshCart ==
  /\ pc = "refreshCart"
  /\ po' = po
  /\ \E o \in Outcomes :
       LET w1 == refreshCart(PoWorld, sessUser, o) IN
       IF w1.thrown THEN PoEnd(Throw(w1)) ELSE PoEnd(OrderPlaced(w1))

\* a step of a running placeOrder call
PlaceOrderStep ==
  \/ PoFetchLatestCartState
  \/ PoGetUserProfile
  \/ PoInsertOrder
  \/ PoInsertOrderItems
  \/ PoDeleteOrder
  \/ PoClearCart
  \/ PoRefreshCart

Next ==
  \/ StartConversation
  \/ StopConversation
  \/ UIAddToCart
  \/ UIUpdateCartQuantity
  \/ GetCartDetails
  \/ AddItemToCart
  \/ RemoveItemFromCart
  \/ UpdateCartItemQuantity
  \/ GetAvailableProducts
  \/ GetPurchaseHistory
  \/ GetUserStatus
  \/ PlaceOrder
  \/ PlaceOrderStep
  \/ Deliver

Spec == Init /\ [][Next]_vars

----------------------------------------------------------------------------
(* Orders while the shop changes prices *)

\* the amount a price is raised by
PriceStep == 10

\* the shop raises the price of a product in the products table, were the
\* order_items rows to follow the price of their product
ChangePriceCascading ==
  /\ \E p \in ProductIds :
       /\ price[p] = ProductById(p).price
       /\ price' = [price EXCEPT ![p] = @ + PriceStep]
       /\ orderItems' = {[r EXCEPT !.price = price'[r.product_id]] : r \in orderItems}
  /\ UNCHANGED <<user, cartItems, cart, orders, nextId,
                 session, sessUser, sessCartItems, pc, po, resp, ops, escaped,
                 args, prev, fpVars, coVars>>

\* the shop raises the price of a product in the products table (once per
\* product): a write to products by another session, at any time
ChangePrice ==
  /\ \E p \in ProductIds :
       /\ price[p] = ProductById(p).price
       /\ price' = [price EXCEPT ![p] = @ + PriceStep]
  /\ UNCHANGED <<user, cartItems, cart, orders, orderItems, nextId,
                 session, sessUser, sessCartItems, pc, po, resp, ops, escaped,
                 args, prev, fpVars, coVars>>

NextPrices ==
  \/ StartConversation
  \/ StopConversation
  \/ UIAddToCart
  \/ UIUpdateCartQuantity
  \/ GetPurchaseHistory
  \/ PlaceOrder
  \/ PlaceOrderStep
  \/ Deliver
  \/ ChangePrice

SpecPrices == Init /\ [][NextPrices]_vars

----------------------------------------------------------------------------
(* Checkout: the Cart panel with its "Place Order" button, the placeOrder   *)
(* tool, and a placeOrder tool call of another session of the same user     *)

\* Cart: isProfileComplete (useMemo over userProfile)
Cart_isProfileComplete(userProfile) ==
  /\ ~userProfile.null
  /\ userProfile.profile.phone # <<>>
  /\ Len(userProfile.profile.phone) >= 10
  /\ userProfile.profile.address # <<>>
  /\ Len(userProfile.profile.address) >= 10

\* the cart is filled from the shop before any order is placed
FillCart ==
  /\ pc = "idle"
  /\ po2.pc = "idle"
  /\ nextId = 1
  /\ UIAddToCart

\* the panel is opened, and its effect has read the profile from the auth
\* service: setUserProfile({...}), or setUserProfile(null) on an error
OpenCart ==
  /\ user # NoUser
  /\ ~cartPanel.isOpen
  /\ \E profile \in Profiles, o \in {"ok", "error"} :
       cartPanel' = [isOpen |-> TRUE,
                     userProfile |-> IF o = "ok"
                                     THEN [null |-> FALSE, profile |-> profile]
                                     ELSE [null |-> TRUE, profile |-> NoProfile],
                     isPlacingOrder |-> FALSE, closedBy |-> "none"]
  /\ UNCHANGED <<toolVars, fpVars, po2>>

\* the close button of the panel: onClose
CloseCart ==
  /\ cartPanel.isOpen
  /\ cartPanel' = [NoPanel EXCEPT !.closedBy = "user"]
  /\ UNCHANGED <<toolVars, fpVars, po2>>

\* the fourth argument of placeOrder when the caller passes three:
\* undefined, for which !itemsForOrder holds as itemsForOrder.length === 0
\* does for a list without items
ItemsLeftOut == EmptyCart

\* Cart.handlePlaceOrder, the "Place Order" button, which is rendered for a
\* cart with rows: after its guard it awaits placeOrder(address,
\* customerName, phone) of the context, which has no items to order and
\* returns at once, and then closes the panel ("Close cart on successful
\* order"); isPlacingOrder is set and reset within the handler
HandlePlaceOrder ==
  /\ cartPanel.isOpen
  /\ DOMAIN cartItems # {}
  /\ ~ \/ ~Cart_isProfileComplete(cartPanel.userProfile)
       \/ cartPanel.isPlacingOrder
       \/ cartPanel.userProfile.null
  /\ placeOrderReturnsAtOnce(user, ItemsLeftOut)
  /\ cartPanel' = [NoPanel EXCEPT !.closedBy = "order"]
  /\ UNCHANGED <<toolVars, fpVars, po2>>

\* clientTools.placeOrder called in another session of the user, with every
\* storage call of it succeeding and a profile that passes its check:
\* cartBeforeOrder = await fetchLatestCartState(user.id)
OtherFetch ==
  /\ user # NoUser
  /\ po2.pc = "idle"
  /\ nextId <= MaxOrders + 1
  /\ LET f == fetchLatestCartState(World, user, "ok") IN
     /\ DOMAIN f.r.items # {}
     /\ po2' = [pc |-> "insert_order", items |-> f.r.items, orderId |-> 0]
  /\ UNCHANGED <<toolVars, fpVars, cartPanel>>

\* the other call inserts its order and the order items
OtherInsert ==
  /\ po2.pc = "insert_order"
  /\ LET w1 == placeOrderInsertOrder(World, po2.items, "ok")
         w2 == placeOrderInsertItems(w1, nextId, po2.items, "ok")
     IN  Commit(w2)
  /\ po2' = [po2 EXCEPT !.pc = "clear_cart", !.orderId = nextId]
  /\ UNCHANGED <<user, session, sessUser, sessCartItems, pc, po, resp, ops,
                 escaped, args, prev, fpVars, cartPanel>>

\* the other call clears the cart of the user and returns
OtherClear ==
  /\ po2.pc = "clear_cart"
  /\ Commit(placeOrderClearCart(World, "ok"))
  /\ po2' = [po2 EXCEPT !.pc = "done"]
  /\ UNCHANGED <<user, session, sessUser, sessCartItems, pc, po, resp, ops,
                 escaped, args, prev, fpVars, cartPanel>>

NextCheckout ==
  \/ FillCart
  \/ StartConversation
  \/ PlaceOrder
  \/ PlaceOrderStep
  \/ Deliver
  \/ OpenCart
  \/ CloseCart
  \/ HandlePlaceOrder
  \/ OtherFetch
  \/ OtherInsert
  \/ OtherClear

SpecCheckout == Init /\ [][NextCheckout]_vars

----------------------------------------------------------------------------
(* The product matcher on its own: a ProductFuzzySearch over some catalog   *)
(* is asked for one product name after the other                            *)

Alphabet == {"a", "A", "s", " "}

\* the strings over Alphabet of at most n characters
Strings(n) == UNION {[1..k -> Alphabet] : k \in 0..n}

\* two longer strings: one that strategy 3 cleans, one with a word of three
\* letters for strategy 5
Phrases == { <<"f", "r", "e", "s", "h", " ", "a", "s">>, <<"a", "s", "a">> }

\* the product names drawn
Names == Strings(MaxLen) \cup Phrases

\* the queries drawn: the names, and a decorated query of which one letter
\* is left when the decoration is taken off
Queries == Names \cup { <<"f", "r", "e", "s", "h", " ", "a">> }

ProductNamed(id, name) ==
  [id |-> id, name |-> name, price |-> 100, stock_quantity |-> 1,
   description |-> <<>>, category |-> <<>>]

\* the catalogs of at most two products with names of at most MaxLen
\* characters, or a phrase; the products table puts no constraint on the
\* names
Catalogs ==
  {<<>>}
    \cup {<<ProductNamed("p1", n)>> : n \in Names}
    \cup {<<ProductNamed("p1", n), ProductNamed("p2", m)>> :
            n \in Names, m \in Names}

\* answers of fuse over a catalog: nothing, or one product at a score
FuseAnswers(products) ==
  {<<>>} \cup {Fuse(products[k].id, score) :
                 k \in 1..Len(products), score \in {100, 400}}

InitFind ==
  /\ InitTools
  /\ user = NoUser
  /\ fpCatalog \in Catalogs
  /\ loadedProducts = fpCatalog
  /\ fpQuery = <<>>
  /\ fpFuse = <<>>
  /\ fpResult = NoResult

\* findProduct(searchName) is called
FindProduct ==
  /\ fpResult = NoResult
  /\ \E searchName \in Queries, fz \in FuseAnswers(fpCatalog) :
       /\ fpQuery' = searchName
       /\ fpFuse' = fz
       /\ fpResult' = findProduct(searchName, fpCatalog, fz, <<>>)
  /\ UNCHANGED <<toolVars, loadedProducts, fpCatalog, coVars>>

\* the caller has used the result
FindProductReturned ==
  /\ fpResult # NoResult
  /\ fpQuery' = <<>>
  /\ fpFuse' = <<>>
  /\ fpResult' = NoResult
  /\ UNCHANGED <<toolVars, loadedProducts, fpCatalog, coVars>>

NextFind == FindProduct \/ FindProductReturned

SpecFind == InitFind /\ [][NextFind]_vars

----------------------------------------------------------------------------
(* The product matcher over a catalog with many candidates: fuse answers    *)
(* with up to as many products as the catalog has, so that the ranking and  *)
(* the cut of the alternatives show                                         *)

\* product ids and names of the catalog of many candidates
RankIds == <<"p1", "p2", "p3", "p4", "p5", "p6", "p7", "p8">>

RankNames ==
  << <<"a", "s", "a">>, <<"a", "s", " ", "a">>, <<"s", "a", "a">>,
     <<"a", " ", "s", "a">>, <<"a", "s">> >>

RankCatalog ==
  [i \in 1..MaxCandidates |->
     ProductNamed(RankIds[i], RankNames[((i - 1) % Len(RankNames)) + 1])]

\* scores of fuse in thousandths: on the limit of high, on the limit of
\* medium, on the limit of an alternative, beyond it
Scores == {100, 300, 500, 600}

\* the score lists of n results, best first
SortedScores(n) ==
  {sc \in [1..n -> Scores] : \A i, j \in 1..n : i < j => sc[i] <= sc[j]}

\* the ways to list n different products of a catalog
Rankings(n, products) ==
  {r \in [1..n -> 1..Len(products)] : \A i, j \in 1..n : i # j => r[i] # r[j]}

\* answers of fuse over a catalog: any number of its products, each once,
\* best score first
RankedAnswers(products) ==
  UNION { { [i \in 1..n |-> [product |-> products[r[i]].id, score |-> sc[i]]] :
              r \in Rankings(n, products), sc \in SortedScores(n) } :
          n \in 0..Len(products) }

\* the queries put to the matcher: blank, the name of a product, a decorated
\* name, a word that overlaps every name, and two short words
RankQueries ==
  { <<>>,
    <<"a", "s">>,
    <<"f", "r", "e", "s", "h", " ", "a", "s">>,
    <<"a", "s", "a", "a">>,
    <<"s", "a", " ", "s">> }

InitRank ==
  /\ InitTools
  /\ user = NoUser
  /\ fpCatalog = RankCatalog
  /\ loadedProducts = fpCatalog
  /\ fpQuery = <<>>
  /\ fpFuse = <<>>
  /\ fpResult = NoResult

\* fuse's answer for the first word of the query, which getSuggestions asks
\* for when nothing else matched: the answer for the query when the query
\* is its first word, any answer otherwise
SuggestionAnswers(searchName, fz, products) ==
  LET normalizedSearch == trim(toLowerCase(searchName))
  IN  IF fz # <<>> THEN {<<>>}
      ELSE IF normalizedSearch = <<>> \/ split(normalizedSearch)[1] = normalizedSearch
      THEN {fz}
      ELSE RankedAnswers(products)

\* findProduct(searchName) is called on the matcher of many candidates
FindRanked ==
  /\ fpResult = NoResult
  /\ \E searchName \in RankQueries, fz \in RankedAnswers(fpCatalog) :
       \E fzSug \in SuggestionAnswers(searchName, fz, fpCatalog) :
         /\ fpQuery' = searchName
         /\ fpFuse' = fz
         /\ fpResult' = findProduct(searchName, fpCatalog, fz, fzSug)
  /\ UNCHANGED <<toolVars, loadedProducts, fpCatalog, coVars>>

NextRank == FindRanked \/ FindProductReturned

SpecRank == InitRank /\ [][NextRank]_vars

----------------------------------------------------------------------------
(* getAvailableProducts over catalogs with products out of stock *)

Pears == <<"P", "e", "a", "r", "s">>

\* the stock of a product is at most MaxStock: stock_quantity >= 0
MaxStock == 1

\* the products table with the stocks a, m, p
Stocked(a, m, p) ==
  << [id |-> "p1", name |-> Apples, price |-> 120, stock_quantity |-> a,
      description |-> <<>>, category |-> <<"F", "r", "u", "i", "t", "s">>],
     [id |-> "p2", name |-> Milk, price |-> 60, stock_quantity |-> m,
      description |-> <<>>, category |-> <<"D", "a", "i", "r", "y">>],
     [id |-> "p3", name |-> Pears, price |-> 90, stock_quantity |-> p,
      description |-> <<>>, category |-> <<"F", "r", "u", "i", "t", "s">>] >>

\* the catalogs of up to three products, as loaded by fetchProducts
\* (ordered by name), each product in stock or not
StockedCatalogs ==
  UNION { {slice(Stocked(a, m, p), 0, n) : n \in 0..3} :
            a \in 0..MaxStock, m \in 0..MaxStock, p \in 0..MaxStock }

\* limit arguments: numbers, a missing argument, null, a non-numeric text
LimitInputs ==
  {Num(v) : v \in (-1)..2}
    \cup {[kind |-> k, val |-> 0] : k \in {"undefined", "null", "text"}}

InitBrowse ==
  /\ InitTools
  /\ user = NoUser
  /\ loadedProducts \in StockedCatalogs
  /\ fpCatalog = <<>>
  /\ fpQuery = <<>>
  /\ fpFuse = <<>>
  /\ fpResult = NoResult

\* getAvailableProducts is called, over the products the tools hold
BrowseProducts ==
  /\ Callable
  /\ \E category \in {<<>>, <<"f", "r", "u">>}, t \in SearchInputs,
        limit \in LimitInputs :
       ToolCall(getAvailableProducts(World, fpCatalog, category, t.term,
                                     limit, t.fz),
                AllOk, [NoArgs EXCEPT !.productName = t.term,
                                      !.quantity = limit])

NextBrowse == StartConversation \/ StopConversation \/ BrowseProducts \/ Deliver

SpecBrowse == InitBrowse /\ [][NextBrowse]_vars

----------------------------------------------------------------------------
(* The matcher of a conversation and the loading of the products *)

\* the product lists that fetchProducts can load: at most one product
LoadableCatalogs == {c \in Catalogs : Len(c) = 1}

InitCatalog ==
  /\ InitTools
  /\ user = NoUser
  /\ loadedProducts = <<>>
  /\ fpCatalog = <<>>
  /\ fpQuery = <<>>
  /\ fpFuse = <<>>
  /\ fpResult = NoResult

\* fetchProducts, started when the application mounts, resolves:
\* setProducts(data).  The next render builds a new ProductFuzzySearch over
\* the new list; the tools of a running conversation keep theirs.
FetchProducts ==
  /\ loadedProducts = <<>>
  /\ fpResult = NoResult
  /\ loadedProducts' \in LoadableCatalogs
  /\ UNCHANGED <<toolVars, fpCatalog, fpQuery, fpFuse, fpResult, coVars>>

\* findProductByName(searchName) is called by a tool of the conversation:
\* fuzzySearch.findProduct(searchName) on the matcher the tools hold
FindProductByName ==
  /\ Callable
  /\ fpResult = NoResult
  /\ \E searchName \in Names \ {<<>>}, fz \in FuseAnswers(fpCatalog) :
       /\ fpQuery' = searchName
       /\ fpFuse' = fz
       /\ fpResult' = findProduct(searchName, fpCatalog, fz, <<>>)
  /\ UNCHANGED <<toolVars, loadedProducts, fpCatalog, coVars>>

NextCatalog ==
  \/ FetchProducts
  \/ StartConversation
  \/ StopConversation
  \/ FindProductByName
  \/ FindProductReturned

SpecCatalog == InitCatalog /\ [][NextCatalog]_vars

----------------------------------------------------------------------------
(* Properties *)

\* a call of the tool has just returned
Returned(tool) == pc = "responded" /\ resp.tool = tool

\* every storage call of the call that has just returned succeeded
AllOpsOk == \A i \in 1..Len(ops) : ops[i].out = "ok"

\* the call that has just returned issued a write to the cart rows, and the
\* storage layer failed it
CartWriteFailed ==
  \E i \in 1..Len(ops) :
    /\ ops[i].table = "cart_items"
    /\ ops[i].op \in {"insert", "update", "delete"}
    /\ ops[i].out # "ok"

\* fetchLatestCartState returned its failure indicator to the call that has
\* just returned
FetchFailed ==
  \E i \in 1..Len(ops) :
    ops[i].by = "fetchLatestCartState" /\ ops[i].out # "ok"

\* Math.max(1, Math.floor(Number(quantity) || 1)) of an argument, written
\* out by the kind of the argument
Clamped(quantity) ==
  IF quantity.kind = "number" /\ quantity.val >= 1 THEN quantity.val ELSE 1

CartTools == {"addItemToCart", "removeItemFromCart", "updateCartItemQuantity"}

SignInTools == CartTools \cup {"getCartDetails", "getPurchaseHistory", "placeOrder"}

AllTools == SignInTools \cup {"getAvailableProducts", "getUserStatus"}

\* C5: for a signed-in user and a name that resolves to a product with stock
\* s, addItemToCart with clamped quantity q <= s succeeds when its storage
\* calls succeed, and with q > s it returns success:false naming s as the
\* available quantity, having issued no storage call (the stored cart is
\* as it was).
C5_StockBoundary ==
  (Returned("addItemToCart") /\ sessUser # NoUser /\ args.product # NoProduct)
    => LET s == ProductById(args.product).stock_quantity
           q == Clamped(args.quantity)
       IN  /\ (q <= s /\ AllOpsOk) => resp.success
           /\ q > s => /\ ~resp.success
                        /\ resp.message = "only_available"
                        /\ resp.available = s
                        /\ ops = <<>>

\* C5: a call with the quantity exactly at the stock of the product (Apples,
\* stock 2) succeeded
C5_Witness_AtStock ==
  /\ Returned("addItemToCart")
  /\ args.product = "p1"
  /\ Clamped(args.quantity) = ProductById("p1").stock_quantity
  /\ resp.success
  /\ resp.quantity = ProductById("p1").stock_quantity

\* C6 as claimed: when the insert, update or delete that addItemToCart,
\* removeItemFromCart or updateCartItemQuantity issued failed at the storage
\* layer, the tool returns success:false.
C6_WriteFailureReported ==
  (pc = "responded" /\ resp.tool \in CartTools /\ CartWriteFailed)
    => ~resp.success

\* C7 as claimed: when fetchLatestCartState failed, the tool that called it
\* neither says that the cart is empty nor reports zero items and a zero
\* total with success:true.
C7_FailedFetchNotEmptyCart ==
  (pc = "responded" /\ FetchFailed)
    => /\ resp.message # "cart_is_empty"
       /\ ~(resp.success /\ resp.itemCount = 0 /\ resp.totalAmount = 0)

\* a tool has returned an envelope, and no exception has left it
EnvelopeReturned ==
  /\ ~escaped
  /\ resp.tool \in AllTools
  /\ resp.success \in BOOLEAN
  /\ resp.message # NoResponse.message

ItemsInsertFailed ==
  /\ po.orderId # 0
  /\ \E i \in 1..Len(ops) :
       ops[i].table = "order_items" /\ ops[i].op = "insert" /\ ops[i].out = "error"

\* the delete of the cart rows was issued by the call that has just returned
CartClearIssued ==
  \E i \in 1..Len(ops) :
    ops[i].by = "placeOrder" /\ ops[i].table = "cart_items" /\ ops[i].op = "delete"

\* C1 as claimed: when the order row was inserted and the insert of the
\* order items then failed, the order row does not exist once placeOrder has
\* returned, whatever the outcome of the storage calls that follow; the
\* call reports failure and the cart was not cleared.
C1_OrderRolledBack ==
  (Returned("placeOrder") /\ ItemsInsertFailed)
    => /\ po.orderId \notin DOMAIN orders
       /\ ~resp.success
       /\ ~CartClearIssued

\* a delivery profile with a name, a phone of at least 10 characters and an
\* address of at least 10 characters
CompleteProfile(userProfile) ==
  /\ ~userProfile.null
  /\ userProfile.profile.full_name # <<>>
  /\ Len(trim(userProfile.profile.phone)) >= 10
  /\ Len(trim(userProfile.profile.address)) >= 10

\* the order-item rows that a cart makes for an order
ItemsOfCart(orderId, c) ==
  { [order_id |-> orderId, product_id |-> p, quantity |-> c[p],
     price |-> ProductById(p).price] : p \in DOMAIN c }

\* placeOrder has just returned to a signed-in user who had a complete
\* profile and a cart with rows when calling it, no storage call of it has
\* failed and nothing else was written during it
OrderCallInTheClear ==
  /\ Returned("placeOrder")
  /\ sessUser # NoUser
  /\ DOMAIN po.cartAtCall # {}
  /\ CompleteProfile(po.userProfile)
  /\ po.interleaved = 0
  /\ AllOpsOk

\* C2: such a call has created exactly one order row, with status Pending
\* and the sum of price x quantity over the cart rows as total_amount, and
\* exactly one order-item row per cart row with the product id, the quantity
\* and the price of the product; the cart has no rows; the tool reports
\* success.
C2_OrderPlaced ==
  OrderCallInTheClear
    => /\ resp.success
       /\ nextId = po.orderId + 1
       /\ po.orderId \in DOMAIN orders
       /\ orders[po.orderId] =
            [total_amount |->
               SumOver([p \in DOMAIN po.cartAtCall |->
                          ProductById(p).price * po.cartAtCall[p]],
                       DOMAIN po.cartAtCall),
             status |-> "Pending"]
       /\ {r \in orderItems : r.order_id = po.orderId}
            = ItemsOfCart(po.orderId, po.cartAtCall)
       /\ Cardinality({r \in orderItems : r.order_id = po.orderId})
            = Cardinality(DOMAIN po.cartAtCall)
       /\ cart = EmptyCart

\* C2: the scenario of two Apples at 120 and one Milk at 60, ordered for 300
C2_Witness_Scenario ==
  /\ OrderCallInTheClear
  /\ po.cartAtCall = [p \in {"p1", "p2"} |-> IF p = "p1" THEN 2 ELSE 1]
  /\ orders[po.orderId].total_amount = 300
  /\ cart = EmptyCart

\* C3 as claimed: whenever addItemToCart(productName, q) returns success,
\* all its storage calls having succeeded, the stored row of the product has
\* the quantity n + q, n being the quantity stored before the call (0 when
\* there was no row).
C3_AddIsUpsert ==
  [][ ( /\ pc = "idle" /\ pc' = "responded"
        /\ resp'.tool = "addItemToCart" /\ resp'.success
        /\ \A i \in 1..Len(ops') : ops'[i].out = "ok" )
      => /\ resp'.product \in DOMAIN cart'
         /\ cart'[resp'.product]
              = (IF resp'.product \in DOMAIN cart THEN cart[resp'.product] ELSE 0)
                + resp'.quantity ]_vars

\* updateCartItemQuantity has just returned from a call for the product and
\* the quantity q >= 1 of the call before it, which had set the quantity;
\* the storage calls of both succeeded
SecondUpdate ==
  /\ Returned("updateCartItemQuantity")
  /\ AllOpsOk
  /\ prev.tool = "updateCartItemQuantity"
  /\ args.product = prev.product
  /\ args.quantity.kind = "number"
  /\ args.quantity.val = prev.quantity

\* C4: updateCartItemQuantity sets the quantity: after a successful call
\* with q >= 1 the row of the product holds q, and a second call in a row
\* for the same product and q succeeds and leaves the stored cart as the
\* first call left it, the one row of the product holding q.
C4_UpdateSetsQuantity ==
  /\ (Returned("updateCartItemQuantity") /\ AllOpsOk /\ resp.success
        /\ resp.quantity >= 1)
       => /\ resp.product \in DOMAIN cart
          /\ cart[resp.product] = resp.quantity
          /\ resp.quantity <= ProductById(resp.product).stock_quantity
  /\ SecondUpdate
       => /\ resp.success
          /\ cart = prev.cart
          /\ cart[prev.product] = prev.quantity

\* C4: the second of two calls for Apples and 1 has returned, the row of
\* Apples having held 2 before the first
C4_Witness_Twice ==
  /\ SecondUpdate
  /\ prev.product = "p1"
  /\ prev.quantity = 1
  /\ cart["p1"] = 1

\* findProduct has just been called with the name of the k-th product of the
\* catalog
AskedByName(k) ==
  /\ fpResult # NoResult
  /\ k \in 1..Len(fpCatalog)
  /\ fpQuery = fpCatalog[k].name

\* C10 as claimed: for every catalog and every product P in it,
\* findProduct(P.name) returns P with confidence exact.
C10_EveryNameFindsItsProduct ==
  \A k \in 1..Len(fpCatalog) :
    AskedByName(k)
      => fpResult.product = fpCatalog[k].id /\ fpResult.confidence = "exact"

\* the products of the catalog whose name is that of the k-th, letter case
\* apart
SameNameAs(k) ==
  {j \in 1..Len(fpCatalog) :
     toLowerCase(fpCatalog[j].name) = toLowerCase(fpCatalog[k].name)}

\* C10, amended: for every catalog and every product P in it whose name is
\* not empty and has no blank at either end, findProduct(P.name) returns by
\* strategy 1, with confidence exact and no alternatives, the first product
\* of the catalog whose name is P.name letter case apart: P itself when no
\* product before it has that name.
C10_NameFindsFirstOfThatName ==
  \A k \in 1..Len(fpCatalog) :
    ( /\ AskedByName(k)
      /\ fpCatalog[k].name # <<>>
      /\ trim(fpCatalog[k].name) = fpCatalog[k].name )
      => /\ fpResult.confidence = "exact"
         /\ fpResult.matchType = "exact_match"
         /\ fpResult.alternatives = <<>>
         /\ \E j \in SameNameAs(k) :
              /\ \A i \in SameNameAs(k) : j <= i
              /\ fpResult.product = fpCatalog[j].id
         /\ (\A i \in SameNameAs(k) : k <= i) => fpResult.product = fpCatalog[k].id

\* C10: the second of two products with different names was asked for by
\* its name, which has a capital, and was returned
C10_Witness_SecondProduct ==
  /\ Len(fpCatalog) = 2
  /\ AskedByName(2)
  /\ fpCatalog[1].name = <<"a", "s">>
  /\ fpCatalog[2].name = <<"A">>
  /\ fpResult.product = "p2"
  /\ fpResult.confidence = "exact"

\* the names of the catalog are not empty, have no blank at either end and
\* differ from one another, letter case apart
PlainNames ==
  \A k \in 1..Len(fpCatalog) :
    /\ fpCatalog[k].name # <<>>
    /\ fpCatalog[k].name[1] # " "
    /\ fpCatalog[k].name[Len(fpCatalog[k].name)] # " "
    /\ \A j \in 1..Len(fpCatalog) :
         j # k => toLowerCase(fpCatalog[j].name) # toLowerCase(fpCatalog[k].name)

\* no product other than the k-th has the name form, letter case apart
OwnedByNoOther(k, form) ==
  \A j \in 1..Len(fpCatalog) :
    j # k => toLowerCase(fpCatalog[j].name) # toLowerCase(form)

\* C11 as claimed, over catalogs of plain names: findProduct(P.name + "s")
\* resolves to P, and when P.name ends in "s" and has more letters,
\* findProduct(P.name without that "s") resolves to P, no other product
\* having the name asked for.
C11_PluralFormsResolve ==
  (fpResult # NoResult /\ PlainNames)
    => \A k \in 1..Len(fpCatalog) :
         LET name == fpCatalog[k].name IN
         /\ (fpQuery = name \o <<"s">> /\ OwnedByNoOther(k, fpQuery))
              => fpResult.product = fpCatalog[k].id
         /\ ( /\ Len(name) > 1
              /\ name[Len(name)] = "s"
              /\ fpQuery = SubSeq(name, 1, Len(name) - 1)
              /\ OwnedByNoOther(k, fpQuery) )
              => fpResult.product = fpCatalog[k].id

\* a string of blanks, the empty one included
Blank(s) == \A i \in 1..Len(s) : s[i] = " "

\* C12: for every catalog, findProduct of an empty or whitespace-only query
\* returns no product, confidence none and no alternatives; it returns at
\* the first test and looks at no product.
C12_BlankQueryFindsNothing ==
  (fpResult # NoResult /\ Blank(fpQuery))
    => /\ fpResult.product = NoProduct
       /\ fpResult.confidence = "none"
       /\ fpResult.alternatives = <<>>
       /\ fpResult.matchType = "empty_query"

\* C12: a query of one blank over a catalog that has a product of that name
C12_Witness_BlankName ==
  /\ fpResult # NoResult
  /\ fpQuery = <<" ">>
  /\ Len(fpCatalog) = 1
  /\ fpCatalog[1].name = <<" ">>
  /\ fpResult.product = NoProduct

\* the lowercased, trimmed query
Normalized == trim(toLowerCase(fpQuery))

\* the products whose lowercased name is one of the forms
Named(forms) ==
  {k \in 1..Len(fpCatalog) : toLowerCase(fpCatalog[k].name) \in forms}

\* the forms strategy 2 compares a name with
PluralForms(q) ==
  IF q # <<>> /\ q[Len(q)] = "s"
  THEN {SubSeq(q, 1, Len(q) - 1), q}
  ELSE {q, q \o <<"s">>}

\* the query without its decorations
Undecorated == trim(stripSuffix(stripPrefix(Normalized)))

\* the forms strategy 3 compares a name with
CleanedForms ==
  IF Undecorated[Len(Undecorated)] = "s"
  THEN {Undecorated, SubSeq(Undecorated, 1, Len(Undecorated) - 1)}
  ELSE {Undecorated, Undecorated \o <<"s">>}

\* the word w of at least three letters overlaps the product name n
Overlaps(w, n) ==
  /\ Len(w) >= 3
  /\ \/ includes(n, w)
     \/ includes(w, n)
     \/ \E i \in 1..Len(split(n)) :
          \/ startsWith(split(n)[i], SubSeq(w, 1, 3))
          \/ startsWith(w, sliceTo(split(n)[i], 3))

\* the products each strategy produces for the query, in catalog order
\* (strategy 4: in the order of fuse)
ByExact == Named({Normalized})

ByPlural == Named(PluralForms(Normalized))

ByCleaned ==
  IF Undecorated # Normalized /\ Len(Undecorated) >= 2
  THEN Named(CleanedForms) ELSE {}

ByFuse == IF Len(Normalized) >= 2 THEN fpFuse ELSE <<>>

ByPartial ==
  {k \in 1..Len(fpCatalog) :
     \E i \in 1..Len(split(Normalized)) :
       Overlaps(split(Normalized)[i], toLowerCase(fpCatalog[k].name))}

\* the id of the first product of a non-empty set of catalog positions
FirstOf(K) == fpCatalog[CHOOSE k \in K : \A j \in K : k <= j].id

\* C13: for a query that is not blank, the result comes from the first of
\* the strategies exact, singular/plural, decoration stripping, approximate
\* search, partial word overlap that produces a product, with the product
\* and the confidence of that strategy, and is no match when none does; a
\* query that is the name of a product, letter case and outer blanks apart,
\* is answered with confidence exact by strategy 1.
C13_FirstStrategyWins ==
  (fpResult # NoResult /\ ~Blank(fpQuery))
    => LET r == fpResult IN
       IF ByExact # {}
       THEN r.matchType = "exact_match" /\ r.confidence = "exact"
            /\ r.product = FirstOf(ByExact)
       ELSE IF ByPlural # {}
       THEN r.matchType = "singular_plural_match" /\ r.confidence = "exact"
            /\ r.product = FirstOf(ByPlural)
       ELSE IF ByCleaned # {}
       THEN r.matchType = "cleaned_exact_match" /\ r.confidence = "high"
            /\ r.product = FirstOf(ByCleaned)
       ELSE IF ByFuse # <<>>
       THEN r.matchType = "fuzzy_match" /\ r.confidence \in {"high", "medium", "low"}
            /\ r.product = ByFuse[1].product
       ELSE IF ByPartial # {}
       THEN r.matchType = "partial_word_match" /\ r.confidence = "low"
            /\ r.product = FirstOf(ByPartial)
       ELSE r.matchType = "no_match" /\ r.confidence = "none"
            /\ r.product = NoProduct

\* C13: the query is the name of the second product; strategy 2 would give
\* the first product and fuse names the first product with the best score;
\* the second product is returned with confidence exact
C13_Witness_ExactOverLater ==
  /\ fpResult # NoResult
  /\ Len(fpCatalog) = 2
  /\ fpCatalog[1].name = <<"a">>
  /\ fpCatalog[2].name = <<"a", "s">>
  /\ fpQuery = <<"a", "s">>
  /\ ByPlural = {1, 2}
  /\ fpFuse = Fuse("p1", 100)
  /\ fpResult.product = "p2"
  /\ fpResult.matchType = "exact_match"

\* the tools that answer with the totals of a cart they have just fetched
TotalsTools == CartTools \cup {"getCartDetails", "getUserStatus"}

\* C14: when the fetch of the cart rows succeeded, the totalAmount returned
\* is the sum over the rows of the price of the product x the quantity, and
\* the itemCount is the sum of the quantities of the rows, not their number;
\* seen in the answer of every tool that reports what it fetched last.
C14_TotalsOfFetchedCart ==
  ( /\ pc = "responded"
    /\ resp.tool \in TotalsTools
    /\ sessUser # NoUser
    /\ resp.success
    /\ ~FetchFailed )
    => /\ resp.totalAmount =
            SumOver([p \in DOMAIN cart |-> ProductById(p).price * cart[p]],
                    DOMAIN cart)
       /\ resp.itemCount = SumOver([p \in DOMAIN cart |-> cart[p]], DOMAIN cart)

\* C14: two Apples and one Milk were fetched: two rows, three items, 300
C14_Witness_ThreeItems ==
  /\ Returned("getCartDetails")
  /\ resp.success
  /\ cart = [p \in {"p1", "p2"} |-> IF p = "p1" THEN 2 ELSE 1]
  /\ resp.itemCount = 3
  /\ resp.totalAmount = 300

\* the sum of the quantities of the rows of a cart
Quantities(c) == SumOver([p \in DOMAIN c |-> c[p]], DOMAIN c)

\* the sum of price x quantity over the rows of a cart
Amount(c) == SumOver([p \in DOMAIN c |-> ProductById(p).price * c[p]], DOMAIN c)

\* getCartDetails has just answered, being called right after an
\* addItemToCart that returned success; the storage calls of both
\* succeeded and nothing else has written to the cart since the add
ReadAfterAdd ==
  /\ Returned("getCartDetails")
  /\ resp.success
  /\ AllOpsOk
  /\ prev.tool = "addItemToCart"

\* C15 as claimed: getCartDetails right after a successful
\* addItemToCart(name, q) reports the stored cart, with an itemCount q
\* higher and a totalAmount q x price higher than those of the cart stored
\* before the add.
C15_AddThenRead ==
  ReadAfterAdd
    => /\ resp.itemCount = Quantities(cart)
       /\ resp.totalAmount = Amount(cart)
       /\ resp.itemCount = Quantities(prev.before) + prev.quantity
       /\ resp.totalAmount = Amount(prev.before)
                               + prev.quantity * ProductById(prev.product).price

\* the rows of the products other than p are the same in carts c and d
SameButFor(p, c, d) ==
  \A x \in ProductIds \ {p} :
    /\ x \in DOMAIN c <=> x \in DOMAIN d
    /\ x \in DOMAIN c => c[x] = d[x]

\* the deletes of cart rows issued by the call that has just returned
CartDeletes ==
  {i \in 1..Len(ops) : ops[i].table = "cart_items" /\ ops[i].op = "delete"}

\* C16: removeItemFromCart, the name resolving to a product and the cart
\* having been fetched: when the product has no row, the call returns
\* success:false, issues no delete and leaves the stored cart as it was;
\* when it has a row, the call issues one delete, which removes no row of
\* another product, and when the delete succeeds the product has no row
\* afterwards; the call returns success when all its storage calls succeed.
C16_RemoveDeletesThatRow ==
  ( /\ Returned("removeItemFromCart")
    /\ sessUser # NoUser
    /\ args.product # NoProduct
    /\ ops # <<>> /\ ops[1].out = "ok" )
    => IF args.product \notin DOMAIN args.cartAtCall
       THEN /\ ~resp.success
            /\ CartDeletes = {}
            /\ cart = args.cartAtCall
       ELSE /\ Cardinality(CartDeletes) = 1
            /\ SameButFor(args.product, cart, args.cartAtCall)
            /\ (\A i \in CartDeletes : ops[i].out = "ok")
                 => args.product \notin DOMAIN cart
            /\ AllOpsOk => resp.success

\* C16: Milk was removed from a cart of two Apples and one Milk
C16_Witness_MilkRemoved ==
  /\ Returned("removeItemFromCart")
  /\ resp.success
  /\ args.product = "p2"
  /\ args.cartAtCall = [p \in {"p1", "p2"} |-> IF p = "p1" THEN 2 ELSE 1]
  /\ cart = [p \in {"p1"} |-> 2]

\* the writes issued by the context's placeOrder in the call that has just
\* returned: the inserts of the order and its items, the deletes
WritesOfPlaceOrder == {i \in 1..Len(ops) : ops[i].by = "placeOrder"}

\* the cart fetched by the placeOrder call had no rows, or the phone or the
\* address of the account profile has fewer than 10 characters
OrderPreconditionFails ==
  \/ DOMAIN po.items = {}
  \/ Len(po.userProfile.profile.phone) < 10
  \/ Len(po.userProfile.profile.address) < 10

\* C17: when the freshly fetched cart has no rows, or the phone or the
\* address of the account profile has fewer than 10 characters, the
\* placeOrder tool returns success:false, has issued no insert and no
\* delete, has created no order, and the stored cart is as it was when the
\* tool was called, nothing else having written to it.
C17_OrderRefused ==
  (Returned("placeOrder") /\ sessUser # NoUser /\ OrderPreconditionFails)
    => /\ ~resp.success
       /\ WritesOfPlaceOrder = {}
       /\ po.orderId = 0
       /\ po.interleaved = 0 => cart = po.cartAtCall

\* C17: an order was refused for a phone of 9 characters, the cart having
\* rows and the address 10 characters
C17_Witness_ShortPhone ==
  /\ Returned("placeOrder")
  /\ DOMAIN po.items # {}
  /\ Len(po.userProfile.profile.phone) = 9
  /\ Len(po.userProfile.profile.address) = 10
  /\ ~po.userProfile.null
  /\ resp.message = "profile_incomplete"
  /\ cart = po.cartAtCall

\* C18: updateCartItemQuantity with a negative quantity returns
\* success:false, issues no storage call and leaves the stored cart as it
\* was, whatever the cart holds and whatever the product name.
C18_NegativeQuantityRefused ==
  ( /\ Returned("updateCartItemQuantity")
    /\ args.quantity.kind = "number"
    /\ args.quantity.val < 0 )
    => /\ ~resp.success
       /\ ops = <<>>
       /\ cart = args.cartAtCall

\* C18: -1 was asked for a product that has a row in the cart
C18_Witness_NegativeForRow ==
  /\ Returned("updateCartItemQuantity")
  /\ args.quantity = Num(-1)
  /\ args.product \in DOMAIN cart
  /\ resp.message = "negative"

\* C19 as claimed: updateCartItemQuantity with a quantity that is not a
\* number (null, a non-numeric text) returns success:false and leaves the
\* stored cart as it was.
C19_NonNumericQuantityRefused ==
  ( /\ Returned("updateCartItemQuantity")
    /\ args.quantity.kind \in {"null", "text"} )
    => /\ ~resp.success
       /\ cart = args.cartAtCall

\* min(50, max(1, limit)), and 10 when the limit is absent or not a number
LimitClaimed(limit) ==
  IF limit.kind # "number" THEN 10
  ELSE IF limit.val < 1 THEN 1 ELSE IF limit.val > 50 THEN 50 ELSE limit.val

\* the products of the catalog that getAvailableProducts has returned
ProductsReturned ==
  {k \in 1..Len(fpCatalog) :
     \E i \in 1..Len(resp.products) : resp.products[i] = fpCatalog[k].id}

\* C20 as claimed: getAvailableProducts returns only products that are in
\* stock, and at most min(50, max(1, limit)) of them, 10 when the limit is
\* absent or not a number, for every catalog, category, search term and
\* limit.
C20_InStockUpToLimit ==
  Returned("getAvailableProducts")
    => /\ \A k \in ProductsReturned : fpCatalog[k].stock_quantity > 0
       /\ Len(resp.products) <= LimitClaimed(args.quantity)

\* C21: every stored cart row has a quantity of at least 1, after any
\* sequence of handlers of the user interface and of tool calls, whatever
\* the outcomes of their storage calls; and an update to quantity 0 whose
\* storage calls succeeded has deleted the row.
C21_RowsHoldAtLeastOne ==
  /\ \A p \in DOMAIN cart : cart[p] >= 1
  /\ \A p \in DOMAIN cartItems : cartItems[p] >= 1
  /\ (Returned("updateCartItemQuantity") /\ resp.message = "removed" /\ AllOpsOk)
       => /\ args.product \in DOMAIN args.cartAtCall
          /\ cart = DropRow(args.cartAtCall, args.product)

\* C21: an update to 0 has deleted the row of one product and left the row
\* of the other
C21_Witness_ZeroDeletes ==
  /\ Returned("updateCartItemQuantity")
  /\ args.quantity = Num(0)
  /\ resp.message = "removed"
  /\ AllOpsOk
  /\ args.product \in DOMAIN args.cartAtCall
  /\ args.product \notin DOMAIN cart
  /\ cart # EmptyCart

\* the order_items rows of an order
ItemsOfOrder(id) == {r \in orderItems : r.order_id = id}

\* the order is not the one a running placeOrder call is creating
Created(id) == pc \notin PlaceOrderSteps \/ po.orderId # id

\* C22: a change of a product's price changes no order row and no
\* order_items row, and no later step of the application changes the
\* total_amount or the order_items rows of an order that has been created.
C22_OrderPricesFrozen ==
  [][ /\ price' # price => orders' = orders /\ orderItems' = orderItems
      /\ \A id \in DOMAIN orders :
           Created(id)
             => /\ id \in DOMAIN orders'
                /\ orders'[id] = orders[id]
                /\ ItemsOfOrder(id)' = ItemsOfOrder(id) ]_vars

\* C22: an order holds an item at the price of the order time, the
\* product's price having changed since
C22_Witness_OldPriceKept ==
  \E id \in DOMAIN orders :
    /\ Created(id)
    /\ ItemsOfOrder(id) # {}
    /\ \E r \in ItemsOfOrder(id) :
         r.price = ProductById(r.product_id).price /\ price[r.product_id] # r.price
    /\ orders[id].total_amount = 120

\* the sum of price x quantity over the order_items rows of an order
SumOfItems(id) ==
  SumOver([r \in ItemsOfOrder(id) |-> r.price * r.quantity], ItemsOfOrder(id))

\* C23: whenever an order has order_items rows, its total_amount is the sum
\* of price x quantity over those rows, also when the cart or the prices
\* were changed by others while placeOrder was running; and the total
\* announced by a successful placeOrder is the total_amount of the order it
\* created.
C23_TotalIsSumOfOwnItems ==
  /\ \A id \in DOMAIN orders :
       ItemsOfOrder(id) # {} => orders[id].total_amount = SumOfItems(id)
  /\ (Returned("placeOrder") /\ resp.success)
       => /\ po.orderId \in DOMAIN orders
          /\ ItemsOfOrder(po.orderId) # {}
          /\ resp.totalAmount = orders[po.orderId].total_amount

\* C23: the order and its items are stored and the call is still running,
\* a price of an ordered product and the stored cart having been changed
\* since the call fetched the cart
C23_Witness_ChangedMeanwhile ==
  /\ pc = "clear_cart"
  /\ po.interleaved > 0
  /\ cart # po.cartAtCall
  /\ \E r \in ItemsOfOrder(po.orderId) : price[r.product_id] # r.price

\* the delete of the cart rows by placeOrder was issued and returned an
\* error
CartClearFailed ==
  \E i \in 1..Len(ops) :
    /\ ops[i].by = "placeOrder" /\ ops[i].table = "cart_items"
    /\ ops[i].op = "delete" /\ ops[i].out = "error"

\* C24 as claimed: when the delete of the cart rows fails after the order
\* and its items were stored, the placeOrder tool still answers success,
\* and not with the message of a full success, which says that the cart is
\* now empty.
C24_ClearFailureIsAWarning ==
  (Returned("placeOrder") /\ CartClearFailed)
    => /\ resp.success
       /\ resp.message # "order_placed"

\* C25 as claimed: the cart summary of a successful placeOrder response
\* holds the item count and the total of the cart rows stored when the
\* call re-fetched the cart, its last storage call.
C25_SummaryIsStoredCart ==
  (Returned("placeOrder") /\ resp.success)
    => /\ resp.cartSummary.itemCount = Quantities(cart)
       /\ resp.cartSummary.totalAmount = Amount(cart)

\* the insert of the order row was issued and failed
OrderInsertFailed ==
  \E i \in 1..Len(ops) :
    /\ ops[i].by = "placeOrder" /\ ops[i].table = "orders"
    /\ ops[i].op = "insert" /\ ops[i].out # "ok"

\* C26: when the insert of the order row fails, placeOrder returns in that
\* step with success:false; the failed insert is the only write the call
\* has issued and its last storage call (no insert of items, no delete of
\* the order, no delete of cart rows), and orders, order items and the
\* stored cart are as they were.
C26_OrderInsertFailureAborts ==
  /\ []( (Returned("placeOrder") /\ OrderInsertFailed)
           => /\ ~resp.success
              /\ WritesOfPlaceOrder = {Len(ops)}
              /\ po.orderId = 0
              /\ po.interleaved = 0 => cart = po.cartAtCall )
  /\ [][ (pc = "insert_order" /\ OrderInsertFailed')
           => /\ pc' = "responded"
              /\ orders' = orders
              /\ orderItems' = orderItems
              /\ nextId' = nextId
              /\ cart' = cart ]_vars

\* C26: the insert of the order failed for a cart with rows and a complete
\* profile
C26_Witness_InsertFailed ==
  /\ Returned("placeOrder")
  /\ OrderInsertFailed
  /\ DOMAIN po.items # {}
  /\ cart = po.cartAtCall
  /\ cart # EmptyCart
  /\ resp.message = "failed"

\* the tools that write to the cart
MutatingTools == {"addItemToCart", "removeItemFromCart",
                  "updateCartItemQuantity", "placeOrder"}

\* the storage calls of the returned call that write
Writes == {i \in 1..Len(ops) : ops[i].op \in {"insert", "update", "delete"}}

\* C27 as claimed: a cart-mutating tool call fetches the state from storage
\* before it validates and before it writes: every write of the call comes
\* after a fetchLatestCartState of the same call, and a refusal for stock
\* is answered after such a fetch.
C27_FetchBeforeValidateAndMutate ==
  (pc = "responded" /\ resp.tool \in MutatingTools)
    => /\ \A i \in Writes :
            \E j \in 1..(i - 1) : ops[j].by = "fetchLatestCartState"
       /\ resp.message = "only_available" => ops # <<>>

\* C28 as claimed: the storage calls of one tool call are strictly
\* sequential: every storage call that is followed by another one of the
\* same tool call was awaited.
C28_StorageCallsSequential ==
  pc = "responded" => \A i \in 1..(Len(ops) - 1) : ops[i].awaited

\* C29 as claimed: the success message of addItemToCart carries the note
\* about the match exactly when the confidence of the match is medium or
\* low.
C29_NoteWhenMediumOrLow ==
  (Returned("addItemToCart") /\ resp.success)
    => (resp.note <=> resp.matchConfidence \in {"medium", "low"})

\* C30 as claimed: once the product list has been loaded, every
\* findProduct call made by a tool resolves against the loaded list, also
\* in a conversation started before the load: a result is a product of the
\* loaded list, and the exact name of a loaded product (a name without
\* blanks at its ends) finds that product.
C30_MatcherSeesLoadedProducts ==
  [][ (session /\ fpResult = NoResult /\ fpResult' # NoResult)
        => /\ fpResult'.product # NoProduct
                => \E k \in 1..Len(loadedProducts) :
                     loadedProducts[k].id = fpResult'.product
           /\ \A k \in 1..Len(loadedProducts) :
                (fpQuery' = loadedProducts[k].name /\ fpQuery' # <<>>
                   /\ fpQuery'[1] # " " /\ fpQuery'[Len(fpQuery')] # " ")
                  => fpResult'.product = loadedProducts[k].id ]_vars

\* the ids of the products at a set of catalog positions
IdsAt(K) == {fpCatalog[k].id : k \in K}

\* C31: decoration stripping answers (match type cleaned_exact_match) only
\* with confidence high, only when the lowercased, trimmed query differs
\* from its form without one listed prefix and one listed suffix, that form
\* has at least 2 characters, and the product returned has a name that is,
\* letter case apart, that form or that form with a trailing "s" added or
\* removed; a query that cleaning leaves unchanged is never answered so.
C31_CleanedMatchOnlyWhenCleaned ==
  (fpResult # NoResult /\ fpResult.matchType = "cleaned_exact_match")
    => /\ fpResult.confidence = "high"
       /\ Undecorated # Normalized
       /\ Len(Undecorated) >= 2
       /\ fpResult.product \in IdsAt(Named(CleanedForms))

\* C31: "fresh as" is cleaned to "as", and the product named "a" is
\* returned by strategy 3
C31_Witness_FreshAs ==
  /\ fpResult # NoResult
  /\ fpQuery = <<"f", "r", "e", "s", "h", " ", "a", "s">>
  /\ Len(fpCatalog) = 1
  /\ fpCatalog[1].name = <<"A">>
  /\ fpResult.matchType = "cleaned_exact_match"
  /\ fpResult.product = "p1"

\* the candidates of the approximate search: the first five of fuse's answer
Candidates == SubSeq(ByFuse, 1, IF Len(ByFuse) < 5 THEN Len(ByFuse) ELSE 5)

\* the confidence that goes with a score in thousandths
ConfidenceOf(score) ==
  IF score <= 100 THEN "high" ELSE IF score <= 300 THEN "medium" ELSE "low"

\* the candidates after the best one that may be alternatives: the next
\* three, with a score of at most 0.5
NextGood == {i \in 2..4 : i <= Len(Candidates) /\ Candidates[i].score <= 500}

\* C32: when the approximate search answers, the product returned is a
\* candidate of the lowest score, the confidence is high for a score of at
\* most 0.10, medium for at most 0.30 and low above, and the alternatives
\* are at most 3, each one of the three candidates that follow the best
\* and has a score of at most 0.5, none of these left out.
C32_BestScoreAndAlternatives ==
  (fpResult # NoResult /\ fpResult.matchType = "fuzzy_match")
    => LET r == fpResult IN
       /\ Candidates # <<>>
       /\ \E i \in 1..Len(Candidates) :
            /\ Candidates[i].product = r.product
            /\ \A j \in 1..Len(Candidates) :
                 Candidates[i].score <= Candidates[j].score
            /\ r.confidence = ConfidenceOf(Candidates[i].score)
       /\ Len(r.alternatives) <= 3
       /\ {r.alternatives[k] : k \in 1..Len(r.alternatives)}
            = {Candidates[i].product : i \in NextGood}
       /\ Len(r.alternatives) = Cardinality(NextGood)

\* C32: fuse ranks five products, all with a score of at most 0.5; the
\* first is returned with confidence medium, the next three are the
\* alternatives and the fifth is left out
C32_Witness_FifthLeftOut ==
  /\ fpResult # NoResult
  /\ Len(fpFuse) = 5
  /\ fpFuse[1].score = 300
  /\ fpFuse[5].score = 500
  /\ fpResult.matchType = "fuzzy_match"
  /\ fpResult.product = fpFuse[1].product
  /\ fpResult.confidence = "medium"
  /\ fpResult.alternatives
       = <<fpFuse[2].product, fpFuse[3].product, fpFuse[4].product>>

\* C39: every result of findProduct is well-formed: the product is null
\* exactly when the confidence is none; there are at most 3 alternatives,
\* no product is listed twice among them, and the product returned is not
\* among them; with confidence exact there are no alternatives.
C39_ResultWellFormed ==
  fpResult # NoResult
    => LET r == fpResult
           alt == r.alternatives
       IN  /\ (r.product = NoProduct) <=> (r.confidence = "none")
           /\ Len(alt) <= 3
           /\ \A i, j \in 1..Len(alt) : i # j => alt[i] # alt[j]
           /\ \A i \in 1..Len(alt) : alt[i] # r.product
           /\ r.confidence = "exact" => alt = <<>>

\* C39: nothing matches "sa s"; fuse suggests the fourth and the first
\* product for "sa", the third and the fourth have a word that begins with
\* "sa"; three different products are suggested
C39_Witness_SuggestionsMerged ==
  /\ fpResult # NoResult
  /\ fpQuery = <<"s", "a", " ", "s">>
  /\ fpResult.matchType = "no_match"
  /\ fpResult.product = NoProduct
  /\ fpResult.alternatives = <<"p4", "p1", "p3">>

\* C33: addItemToCart in a signed-in session with an empty or
\* whitespace-only productName answers that the product name is required,
\* not that the operation failed, and makes no storage call.
C33_BlankNameIsValidationFailure ==
  (Returned("addItemToCart") /\ sessUser # NoUser /\ Blank(args.productName))
    => /\ ~resp.success
       /\ resp.message = "name_required"
       /\ ops = <<>>

\* no row of the cart c holds more than the stock of its product
WithinStock(c) == \A p \in DOMAIN c : c[p] <= ProductById(p).stock_quantity

\* C34: a successful addItemToCart or updateCartItemQuantity call, all its
\* storage calls succeeding, on a stored cart that is within the stock of
\* every product leaves the stored cart within the stock of every product.
C34_StockNeverExceeded ==
  [][ ( /\ pc # "responded" /\ pc' = "responded"
        /\ resp'.tool \in {"addItemToCart", "updateCartItemQuantity"}
        /\ resp'.success
        /\ \A i \in 1..Len(ops') : ops'[i].out = "ok"
        /\ WithinStock(cart) )
        => WithinStock(cart') ]_vars

\* C35: every cart row that the cart-clear step of placeOrder deletes is
\* an order item of the order just created, with the same product and the
\* same quantity, also when a row was added or changed between the fetch
\* of the cart and the clear.
C35_ClearsOnlyWhatWasOrdered ==
  [][ (pc = "clear_cart" /\ pc' # "clear_cart")
        => \A p \in DOMAIN cart \ DOMAIN cart' :
             \E r \in orderItems :
               /\ r.order_id = po.orderId
               /\ r.product_id = p
               /\ r.quantity = cart[p] ]_vars

\* C37: getUserStatus, having read the account profile, reports
\* profileComplete = true exactly when the profile check of the placeOrder
\* tool passes on that profile.
C37_StatusAgreesWithPlaceOrder ==
  (Returned("getUserStatus") /\ sessUser # NoUser /\ resp.success /\ AllOpsOk)
    => (resp.profileComplete
          <=> placeOrderProfileOk([null |-> FALSE, profile |-> args.profile]))

\* the products of the order_items rows of an order
ProductsOfOrder(id) == {r.product_id : r \in ItemsOfOrder(id)}

\* C36: two overlapping placements of an order for one user, all storage
\* calls succeeding, do not create two orders that contain the same cart
\* rows: when the placeOrder tool and a placeOrder call of another session
\* have both inserted their order, the two orders have no product in
\* common (no cart row is written between the two fetches of the cart).
C36_RowsOrderedOnce ==
  ( /\ pc \in {"clear_cart", "refreshCart"}
    /\ AllOpsOk
    /\ po2.pc \in {"clear_cart", "done"} )
    => ProductsOfOrder(po.orderId) \cap ProductsOfOrder(po2.orderId) = {}

\* C38: when the "Place Order" button closes the panel as after a
\* successful order, for a user with a complete profile and a stored cart
\* with rows, an order with its order items has been created and the
\* stored cart is empty.
C38_CheckoutPlacesOrder ==
  [][ ( /\ cartPanel.isOpen
        /\ cartPanel'.closedBy = "order"
        /\ cart # EmptyCart )
        => /\ cart' = EmptyCart
           /\ \E id \in DOMAIN orders' : ItemsOfOrder(id)' # {} ]_vars

====
